---- MODULE Spec2Model ----
(***************************************************************************)
(* Runway selection of es_runway_selector: the per-airport decision        *)
(* policies (general single pair, ENGM, ENZV), the selection sources and   *)
(* their precedence, the .rwy writer and the grouped report data.          *)
(***************************************************************************)
EXTENDS Integers, Sequences, FiniteSets, TLC

\* ------------------------------------------------------------------------
\* Option<T> is a sequence of length 0 (None) or 1 (Some(v)).
\* ------------------------------------------------------------------------
None == <<>>

Some(v) == <<v>>

IsSome(o) == o # <<>>

Unwrap(o) == o[1]

\* ------------------------------------------------------------------------
\* Bounds of the model.
\* ------------------------------------------------------------------------
\* Number of METAR lines one fetched batch holds.
MaxMetars == 2

\* Number of ATIS entries one VATSIM data feed holds.
MaxAtis == 2

\* ------------------------------------------------------------------------
\* f64 arithmetic.  factor values are kept as integers scaled by Scale; the
\* tables hold ceil(cos(d) * Scale) and ceil(sin(d) * Scale) of the f64
\* values for d = 0..180 degrees, so that ceil(speed * factor) agrees with
\* the f64 computation for every speed the model uses (cos(90) and sin(180)
\* are tiny positive numbers in f64, cos(60) is just above 0.5).
\* ------------------------------------------------------------------------
Scale == 1000000

CosTable ==
  <<
     1000000, 999848, 999391, 998630, 997565, 996195, 994522, 992547, 990269, 987689,
     984808, 981628, 978148, 974371, 970296, 965926, 961262, 956305, 951057, 945519,
     939693, 933581, 927184, 920505, 913546, 906308, 898795, 891007, 882948, 874620,
     866026, 857168, 848049, 838671, 829038, 819153, 809017, 798636, 788011, 777146,
     766045, 754710, 743145, 731354, 719340, 707107, 694659, 681999, 669131, 656060,
     642788, 629321, 615662, 601816, 587786, 573577, 559193, 544640, 529920, 515039,
     500001, 484810, 469472, 453991, 438372, 422619, 406737, 390732, 374607, 358368,
     342021, 325569, 309017, 292372, 275638, 258820, 241922, 224952, 207912, 190809,
     173649, 156435, 139174, 121870, 104529, 87156, 69757, 52336, 34900, 17453,
     1, -17452, -34899, -52335, -69756, -87155, -104528, -121869, -139173, -156434,
     -173648, -190808, -207911, -224951, -241921, -258819, -275637, -292371, -309016, -325568,
     -342020, -358367, -374606, -390731, -406736, -422618, -438371, -453990, -469471, -484809,
     -499999, -515038, -529919, -544639, -559192, -573576, -587785, -601815, -615661, -629320,
     -642787, -656059, -669130, -681998, -694658, -707106, -719339, -731353, -743144, -754709,
     -766044, -777145, -788010, -798635, -809016, -819152, -829037, -838670, -848048, -857167,
     -866025, -874619, -882947, -891006, -898794, -906307, -913545, -920504, -927183, -933580,
     -939692, -945518, -951056, -956304, -961261, -965925, -970295, -974370, -978147, -981627,
     -984807, -987688, -990268, -992546, -994521, -996194, -997564, -998629, -999390, -999847,
     -1000000
  >>

SinTable ==
  <<
     0, 17453, 34900, 52336, 69757, 87156, 104529, 121870, 139174, 156435,
     173649, 190809, 207912, 224952, 241922, 258820, 275638, 292372, 309017, 325569,
     342021, 358368, 374607, 390732, 406737, 422619, 438372, 453991, 469472, 484810,
     500000, 515039, 529920, 544640, 559193, 573577, 587786, 601816, 615662, 629321,
     642788, 656060, 669131, 681999, 694659, 707107, 719340, 731354, 743145, 754710,
     766045, 777146, 788011, 798636, 809017, 819153, 829038, 838671, 848049, 857168,
     866026, 874620, 882948, 891007, 898795, 906308, 913546, 920505, 927184, 933581,
     939693, 945519, 951057, 956305, 961262, 965926, 970296, 974371, 978148, 981628,
     984808, 987689, 990269, 992547, 994522, 996195, 997565, 998630, 999391, 999848,
     1000000, 999848, 999391, 998630, 997565, 996195, 994522, 992547, 990269, 987689,
     984808, 981628, 978148, 974371, 970296, 965926, 961262, 956305, 951057, 945519,
     939693, 933581, 927184, 920505, 913546, 906308, 898795, 891007, 882948, 874620,
     866026, 857168, 848049, 838671, 829038, 819153, 809017, 798636, 788011, 777146,
     766045, 754710, 743145, 731354, 719340, 707107, 694659, 681999, 669131, 656060,
     642788, 629321, 615662, 601816, 587786, 573577, 559193, 544640, 529920, 515039,
     500000, 484810, 469472, 453991, 438372, 422619, 406737, 390732, 374607, 358368,
     342021, 325569, 309017, 292372, 275638, 258820, 241922, 224952, 207912, 190809,
     173649, 156435, 139174, 121870, 104529, 87156, 69757, 52336, 34900, 17453,
     1
  >>

Abs(x) == IF x < 0 THEN -x ELSE x

\* f64::ceil of n / Scale (floor division rounds towards minus infinity).
CeilDiv(n, d) == -((-n) \div d)

\* ------------------------------------------------------------------------
\* runway.rs
\* ------------------------------------------------------------------------
RunwayUse == {"Departing", "Arriving", "Both"}

merged_with_prefers_existing(self, other) ==
  IF self = "Both" \/ other = "Both" THEN "Both" ELSE self

merged_with(self, other) ==
  IF self = "Both" \/ other = "Both" THEN "Both"
  ELSE IF (self = "Arriving" /\ other = "Departing")
          \/ (self = "Departing" /\ other = "Arriving") THEN "Both"
  ELSE self

\* active_runway_flags with the arrival flag first for Both
active_runway_flags_arrival_first(usage) ==
  CASE usage = "Departing" -> <<1>>
    [] usage = "Arriving" -> <<0>>
    [] usage = "Both" -> <<0, 1>>

active_runway_flags(usage) ==
  CASE usage = "Departing" -> <<1>>
    [] usage = "Arriving" -> <<0>>
    [] usage = "Both" -> <<1, 0>>

RunwayDirection(identifier, degrees) ==
  [identifier |-> identifier, degrees |-> degrees]

\* ------------------------------------------------------------------------
\* IndexMap<String, RunwayUse>: a sequence of <<key, value>> pairs in
\* insertion order, keys unique.
\* ------------------------------------------------------------------------

MapHas(m, k) == \E i \in DOMAIN m : m[i][1] = k

MapGet(m, k) == m[CHOOSE i \in DOMAIN m : m[i][1] = k][2]

MapInsert(m, k, v) ==
  IF MapHas(m, k)
  THEN [i \in DOMAIN m |-> IF m[i][1] = k THEN <<k, v>> ELSE m[i]]
  ELSE Append(m, <<k, v>>)

\* an entry that takes the new usage in place of the merge
MapUpsertReplacing(m, k, v) == MapInsert(m, k, v)

\* entry(k).and_modify(|e| *e = e.merged_with(v)).or_insert(v)
MapUpsert(m, k, v) ==
  IF MapHas(m, k) THEN MapInsert(m, k, merged_with(MapGet(m, k), v))
  ELSE Append(m, <<k, v>>)

\* ------------------------------------------------------------------------
\* airport.rs: selection sources
\* ------------------------------------------------------------------------
default_sort_order == <<"Atis", "Metar", "Default">>

RunwayInUseSource == {"Atis", "Metar", "Default"}

\* ------------------------------------------------------------------------
\* util.rs
\* ------------------------------------------------------------------------
diff_angle(a, b) ==
  LET diff == Abs(a - b) IN IF diff > 180 THEN 360 - diff ELSE diff

\* ------------------------------------------------------------------------
\* airport.rs: wind projection
\* ------------------------------------------------------------------------
\* metar_decoder WindVelocity::get_max_wind_speed: the resolvable speed of
\* the report, None when the speed field is undefined.
get_max_wind_speed(speed) == speed

\* scale_wind_speed taking an unresolvable speed as calm
scale_wind_speed_calm_default(speed, factor) ==
  IF IsSome(get_max_wind_speed(speed))
  THEN Some(CeilDiv(Unwrap(get_max_wind_speed(speed)) * factor, Scale))
  ELSE Some(0)

scale_wind_speed(speed, factor) ==
  IF IsSome(get_max_wind_speed(speed))
  THEN Some(CeilDiv(Unwrap(get_max_wind_speed(speed)) * factor, Scale))
  ELSE None

\* the closure `includes` without its branch for arcs through north
includes_without_wrap(start, end, a) ==
  a >= start /\ a <= end

\* the closure `includes` of both projections
includes(start, end, a) ==
  IF start <= end THEN a >= start /\ a <= end ELSE a >= start \/ a <= end

Max2(a, b) == IF a >= b THEN a ELSE b

HasVarying(wind) ==
  /\ IsSome(wind.varying)
  /\ IsSome(Unwrap(wind.varying)[1])
  /\ IsSome(Unwrap(wind.varying)[2])

\* calculate_max_headwind_from_wind with heads = [track, track + 180]
headwind_factor_with_reciprocal(track, wind) ==
  IF HasVarying(wind)
  THEN LET start == Unwrap(Unwrap(wind.varying)[1]) % 360
           end == Unwrap(Unwrap(wind.varying)[2]) % 360
       IN IF \/ includes(start, end, track % 360)
             \/ includes(start, end, (track + 180) % 360)
          THEN Scale
          ELSE Max2(CosTable[diff_angle(track, start) + 1],
                    CosTable[diff_angle(track, end) + 1])
  ELSE IF wind.dir.kind = "Heading"
       THEN IF IsSome(wind.dir.track)
            THEN CosTable[diff_angle(track, Unwrap(wind.dir.track)) + 1]
            ELSE Scale
       ELSE Scale

headwind_factor(track, wind) ==
  IF HasVarying(wind)
  THEN LET start == Unwrap(Unwrap(wind.varying)[1]) % 360
           end == Unwrap(Unwrap(wind.varying)[2]) % 360
       IN IF includes(start, end, track % 360) THEN Scale
          ELSE Max2(CosTable[diff_angle(track, start) + 1],
                    CosTable[diff_angle(track, end) + 1])
  ELSE IF wind.dir.kind = "Heading"
       THEN IF IsSome(wind.dir.track)
            THEN CosTable[diff_angle(track, Unwrap(wind.dir.track)) + 1]
            ELSE Scale
       ELSE Scale

calculate_max_headwind_from_wind(runway, wind) ==
  scale_wind_speed(wind.speed, headwind_factor(runway.degrees, wind))

calculate_max_tailwind_from_wind(runway, wind) ==
  LET opposite_runway == RunwayDirection(runway.identifier,
                                         (runway.degrees + 180) % 360)
      headwind == calculate_max_headwind_from_wind(opposite_runway, wind)
  IN IF IsSome(headwind) THEN Some(Max2(Unwrap(headwind), 0)) ELSE None

\* signed_crosswind_component_factor is sin(angle) of this angle, which lies
\* in -180..179; the model keeps the angle and reads magnitude, sign and
\* side off it.
signed_crosswind_angle(track, wind_dir) ==
  ((wind_dir - track + 540) % 360) - 180

\* |sin(angle)| scaled
crosswind_abs(angle) == SinTable[Abs(angle) + 1]

\* f64::signum of sin(angle): sin(0) is +0.0, sin(-180 degrees) is negative.
crosswind_signum(angle) == IF angle >= 0 THEN 1 ELSE -1

\* (start_abs - end_abs).abs() < EPSILON: equal or supplementary angles.
crosswind_abs_equal(a, b) ==
  \/ Abs(a) = Abs(b)
  \/ Abs(a) + Abs(b) = 180

\* crosswind_direction_from_signed_factor with the two sides exchanged
crosswind_direction_mirrored(angle) ==
  IF angle >= 1 /\ angle <= 179 THEN "Left"
  ELSE IF angle <= -1 /\ angle >= -179 THEN "Right"
  ELSE "Variable"

crosswind_direction_from_signed_factor(angle) ==
  IF angle >= 1 /\ angle <= 179 THEN "Right"
  ELSE IF angle <= -1 /\ angle >= -179 THEN "Left"
  ELSE "Variable"

\* calculate_max_crosswind_from_wind reporting Variable for an arc that
\* holds either perpendicular
crosswind_factor_any_perpendicular(track, wind) ==
  IF HasVarying(wind)
  THEN LET cross_from_right == (track + 90) % 360
           cross_from_left == (track + 270) % 360
           start == Unwrap(Unwrap(wind.varying)[1]) % 360
           end == Unwrap(Unwrap(wind.varying)[2]) % 360
           includes_right == includes(start, end, cross_from_right)
           includes_left == includes(start, end, cross_from_left)
           start_component == signed_crosswind_angle(track, start)
           end_component == signed_crosswind_angle(track, end)
           start_abs == crosswind_abs(start_component)
           end_abs == crosswind_abs(end_component)
       IN IF includes_right \/ includes_left THEN <<Scale, "Variable">>
          ELSE IF crosswind_abs_equal(start_component, end_component)
               THEN <<start_abs,
                      IF crosswind_signum(start_component)
                           # crosswind_signum(end_component)
                      THEN "Variable"
                      ELSE crosswind_direction_from_signed_factor(start_component)>>
          ELSE IF start_abs > end_abs
               THEN <<start_abs,
                      crosswind_direction_from_signed_factor(start_component)>>
          ELSE <<end_abs,
                 crosswind_direction_from_signed_factor(end_component)>>
  ELSE IF wind.dir.kind = "Heading"
       THEN IF IsSome(wind.dir.track)
            THEN LET signed_factor ==
                       signed_crosswind_angle(track, Unwrap(wind.dir.track))
                 IN <<crosswind_abs(signed_factor),
                      crosswind_direction_from_signed_factor(signed_factor)>>
            ELSE <<Scale, "Variable">>
       ELSE <<Scale, "Variable">>

\* <<factor, direction>> of calculate_max_crosswind_from_wind
crosswind_factor(track, wind) ==
  IF HasVarying(wind)
  THEN LET cross_from_right == (track + 90) % 360
           cross_from_left == (track + 270) % 360
           start == Unwrap(Unwrap(wind.varying)[1]) % 360
           end == Unwrap(Unwrap(wind.varying)[2]) % 360
           includes_right == includes(start, end, cross_from_right)
           includes_left == includes(start, end, cross_from_left)
           start_component == signed_crosswind_angle(track, start)
           end_component == signed_crosswind_angle(track, end)
           start_abs == crosswind_abs(start_component)
           end_abs == crosswind_abs(end_component)
       IN IF includes_right /\ includes_left THEN <<Scale, "Variable">>
          ELSE IF includes_right THEN <<Scale, "Right">>
          ELSE IF includes_left THEN <<Scale, "Left">>
          ELSE IF crosswind_abs_equal(start_component, end_component)
               THEN <<start_abs,
                      IF crosswind_signum(start_component)
                           # crosswind_signum(end_component)
                      THEN "Variable"
                      ELSE crosswind_direction_from_signed_factor(start_component)>>
          ELSE IF start_abs > end_abs
               THEN <<start_abs,
                      crosswind_direction_from_signed_factor(start_component)>>
          ELSE <<end_abs,
                 crosswind_direction_from_signed_factor(end_component)>>
  ELSE IF wind.dir.kind = "Heading"
       THEN IF IsSome(wind.dir.track)
            THEN LET signed_factor ==
                       signed_crosswind_angle(track, Unwrap(wind.dir.track))
                 IN <<crosswind_abs(signed_factor),
                      crosswind_direction_from_signed_factor(signed_factor)>>
            ELSE <<Scale, "Variable">>
       ELSE <<Scale, "Variable">>

calculate_max_crosswind_from_wind(runway, wind) ==
  LET fd == crosswind_factor(runway.degrees, wind)
      crosswind == scale_wind_speed(wind.speed, fd[1])
  IN IF IsSome(crosswind) THEN Some(<<Unwrap(crosswind), fd[2]>>) ELSE None

\* Airport::runway_max_headwind / runway_max_tailwind / runway_max_crosswind
runway_max_headwind(airport, runway_direction) ==
  IF IsSome(airport.metar)
  THEN calculate_max_headwind_from_wind(runway_direction,
                                        Unwrap(airport.metar).wind)
  ELSE None

runway_max_tailwind(airport, runway_direction) ==
  IF IsSome(airport.metar)
  THEN calculate_max_tailwind_from_wind(runway_direction,
                                        Unwrap(airport.metar).wind)
  ELSE None

runway_max_crosswind(airport, runway_direction) ==
  IF IsSome(airport.metar)
  THEN calculate_max_crosswind_from_wind(runway_direction,
                                         Unwrap(airport.metar).wind)
  ELSE None

\* ------------------------------------------------------------------------
\* Strings that the code slices or formats are sequences of characters.
\* ------------------------------------------------------------------------
Digit == <<"0", "1", "2", "3", "4", "5", "6", "7", "8", "9">>

\* format!("{:02}", n) of a u8
Format02(n) ==
  IF n < 10 THEN <<"0", Digit[n + 1]>>
  ELSE IF n < 100 THEN <<Digit[(n \div 10) + 1], Digit[(n % 10) + 1]>>
  ELSE <<Digit[(n \div 100) + 1], Digit[((n \div 10) % 10) + 1],
         Digit[(n % 10) + 1]>>

\* &s[..2]
Prefix2(s) == SubSeq(s, 1, 2)

\* ------------------------------------------------------------------------
\* airport.rs: decision policies.  A call returns a record whose kind is
\* "Ok", "Err" (ApplicationError) or "Panic" (unreachable!/unwrap).
\* ------------------------------------------------------------------------
Ok(v) == [kind |-> "Ok", value |-> v]

Err(e) == [kind |-> "Err", error |-> e]

Panic(p) == [kind |-> "Panic", panic |-> p]

SeqMin(s) == CHOOSE x \in {s[i] : i \in DOMAIN s} :
               \A j \in DOMAIN s : x <= s[j]

SeqMax(s) == CHOOSE x \in {s[i] : i \in DOMAIN s} :
               \A j \in DOMAIN s : x >= s[j]

\* (max - min) > 2
headwind_decides_wrong_threshold(min, max) == (max - min) >= 2

headwind_decides(min, max) == (max - min) > 2

\* the headwinds IndexMap of one runway pair: <<identifier, Option<i32>>>
\* per direction; runway_index counts from 0 as in the code
pair_headwinds(airport, runway_index) ==
  [i \in DOMAIN airport.runways[runway_index + 1] |->
     <<airport.runways[runway_index + 1][i].identifier,
       runway_max_headwind(airport, airport.runways[runway_index + 1][i])>>]

valid_headwind_values(headwinds) ==
  LET some == SelectSeq([i \in DOMAIN headwinds |-> headwinds[i][2]], IsSome)
  IN [i \in DOMAIN some |-> Unwrap(some[i])]

\* headwinds.iter().find(|(_, v)| v == Some(max))
find_headwind(headwinds, max) ==
  LET hits == {i \in DOMAIN headwinds : headwinds[i][2] = Some(max)}
  IN IF hits = {} THEN None
     ELSE Some(headwinds[CHOOSE i \in hits : \A j \in hits : i <= j][1])

select_by_min_max(headwinds, min, max) ==
  IF headwind_decides(min, max) /\ IsSome(find_headwind(headwinds, max))
  THEN Some(<< <<Unwrap(find_headwind(headwinds, max)), "Both">> >>)
  ELSE None

select_by_values(headwinds, values) ==
  IF values = <<>> THEN None
  ELSE select_by_min_max(headwinds, SeqMin(values), SeqMax(values))

select_from_headwinds(headwinds) ==
  select_by_values(headwinds, valid_headwind_values(headwinds))

internal_set_runway_based_on_metar_wind(airport, runway_index) ==
  select_from_headwinds(pair_headwinds(airport, runway_index))

\* main_runway_index & 1
secondary_index_of(main_runway_index) == main_runway_index % 2

\* index (from 0) of the first runway pair with a direction "18", or None
enzv_main_runway_index(airport) ==
  LET mains == {i \in DOMAIN airport.runways :
                  \E d \in DOMAIN airport.runways[i] :
                    airport.runways[i][d].identifier = <<"1", "8">>}
  IN IF mains = {} THEN None
     ELSE Some((CHOOSE i \in mains : \A j \in mains : i <= j) - 1)

direction_named(dirs, identifier) ==
  dirs[CHOOSE d \in DOMAIN dirs : dirs[d].identifier = identifier]

\* the part of set_runway_for_enzv after both crosswinds are known
enzv_compare(main_runway, crosswind, secondary_runway_crosswind, secondary_sel) ==
  IF ~IsSome(secondary_sel) THEN Ok(<< <<main_runway, "Both">> >>)
  ELSE IF secondary_runway_crosswind < crosswind
       THEN Ok(<< <<Unwrap(secondary_sel)[1][1], "Both">> >>)
  ELSE Ok(<< <<main_runway, "Both">> >>)

enzv_with_crosswind(airport, main_runway_index, main_runway, main_crosswind) ==
  IF ~IsSome(main_crosswind) THEN Ok(<< <<main_runway, "Both">> >>)
  ELSE IF Unwrap(main_crosswind)[1] < 15 THEN Ok(<< <<main_runway, "Both">> >>)
  ELSE enzv_compare(
         main_runway,
         Unwrap(main_crosswind)[1],
         Unwrap(runway_max_crosswind(
                  airport,
                  airport.runways[secondary_index_of(main_runway_index) + 1][1]))[1],
         internal_set_runway_based_on_metar_wind(
           airport, secondary_index_of(main_runway_index)))

enzv_with_main_runway(airport, main_runway_index, main_runway) ==
  enzv_with_crosswind(
    airport, main_runway_index, main_runway,
    runway_max_crosswind(
      airport,
      direction_named(airport.runways[main_runway_index + 1], main_runway)))

enzv_with_main_selection_literal(airport, main_runway_index, main_sel) ==
  enzv_with_main_runway(airport, main_runway_index, <<"1", "8">>)

enzv_with_main_selection(airport, main_runway_index, main_sel) ==
  enzv_with_main_runway(
    airport, main_runway_index,
    IF IsSome(main_sel) THEN Unwrap(main_sel)[1][1] ELSE <<"1", "8">>)

enzv_with_main_index(airport, main_index) ==
  IF ~IsSome(main_index) THEN Panic("enzv_no_main_runway")
  ELSE enzv_with_main_selection(
         airport, Unwrap(main_index),
         internal_set_runway_based_on_metar_wind(airport, Unwrap(main_index)))

set_runway_for_enzv(airport) ==
  enzv_with_main_index(airport, enzv_main_runway_index(airport))

option_ok_or(sel, error) == IF IsSome(sel) THEN Ok(Unwrap(sel)) ELSE Err(error)

set_runway_based_on_metar_wind_first_pair(airport) ==
  IF airport.icao = "ENGM" THEN Panic("engm_not_dealt_with")
  ELSE IF airport.icao = "ENZV" THEN set_runway_for_enzv(airport)
  ELSE option_ok_or(internal_set_runway_based_on_metar_wind(airport, 0),
                    "NoRunwayToSet")

set_runway_based_on_metar_wind(airport) ==
  IF airport.icao = "ENGM" THEN Panic("engm_not_dealt_with")
  ELSE IF airport.icao = "ENZV" THEN set_runway_for_enzv(airport)
  ELSE IF Len(airport.runways) = 1
       THEN option_ok_or(internal_set_runway_based_on_metar_wind(airport, 0),
                         "NoRunwayToSet")
  ELSE Panic("unsupported_configuration")

\* ------------------------------------------------------------------------
\* airport.rs: ENGM
\* ------------------------------------------------------------------------

ceiling_clouds == {"Broken", "Overcast"}

HasDescribed(airport) ==
  /\ IsSome(airport.metar)
  /\ Unwrap(airport.metar).obscuration.kind = "Described"

DescribedOf(airport) == Unwrap(airport.metar).obscuration

cloud_is_low_below_500(cloud) ==
  IF IsSome(cloud.height) THEN Unwrap(cloud.height) < 5 ELSE TRUE

\* height is in hundreds of feet
cloud_is_low(cloud) ==
  IF IsSome(cloud.height) THEN Unwrap(cloud.height) < 15 ELSE TRUE

cloud_is_ceiling(cloud) ==
  /\ cloud.kind = "CloudData"
  /\ IF IsSome(cloud.coverage) THEN Unwrap(cloud.coverage) \in ceiling_clouds
     ELSE TRUE

ceiling_for_lvp(airport) ==
  /\ HasDescribed(airport)
  /\ \E i \in DOMAIN DescribedOf(airport).clouds :
       /\ cloud_is_ceiling(DescribedOf(airport).clouds[i])
       /\ cloud_is_low(DescribedOf(airport).clouds[i])

rvr_reported(airport) ==
  /\ HasDescribed(airport)
  /\ DescribedOf(airport).rvr # <<>>

visibility_below_5000(airport) ==
  /\ HasDescribed(airport)
  /\ DescribedOf(airport).visibility.unit = "Meters"
  /\ IF IsSome(DescribedOf(airport).visibility.value)
     THEN Unwrap(DescribedOf(airport).visibility.value) < 5000
     ELSE TRUE

reported_vv(airport) ==
  /\ HasDescribed(airport)
  /\ IsSome(DescribedOf(airport).vertical_visibility)

forced_deice_condition(airport) ==
  /\ HasDescribed(airport)
  /\ \E i \in DOMAIN DescribedOf(airport).present_weather :
       DescribedOf(airport).present_weather[i].descriptor = Some("Freezing")

DeicePhenomena == {"DZ", "RA", "SN", "SG", "PL", "GR", "GS", "UP", "BR", "FG"}

contender_for_deice(airport) ==
  \E i \in DOMAIN DescribedOf(airport).present_weather :
    \E j \in DOMAIN DescribedOf(airport).present_weather[i].phenomena :
      LET phenomenon == DescribedOf(airport).present_weather[i].phenomena[j]
      IN IsSome(phenomenon) /\ Unwrap(phenomenon) \in DeicePhenomena

possible_deice_conditions(airport) ==
  /\ HasDescribed(airport)
  /\ IF IsSome(Unwrap(airport.metar).temprature.temp)
     THEN Unwrap(airport.metar).temprature.temp[1] < 5
          /\ contender_for_deice(airport)
     ELSE contender_for_deice(airport)

AnyWeatherFlag(airport) ==
  \/ ceiling_for_lvp(airport)
  \/ rvr_reported(airport)
  \/ visibility_below_5000(airport)
  \/ reported_vv(airport)
  \/ possible_deice_conditions(airport)
  \/ forced_deice_condition(airport)

\* Local Europe/Oslo time of day in minutes since midnight.
LateEvening == 22 * 60 + 30

EarlyMorning == 6 * 60 + 30

engm_mode_ignores_weather(now, weather) ==
  IF LateEvening <= now THEN "Segregated"
  ELSE IF EarlyMorning > now THEN "Single"
  ELSE "Mixed"

engm_mode(now, weather) ==
  IF LateEvening <= now THEN "Segregated"
  ELSE IF EarlyMorning > now THEN "Single"
  ELSE IF weather THEN "Segregated"
  ELSE "Mixed"

\* config.get_default_runways().get(icao): Option<u8>
ConfigDefault(config, icao) ==
  IF icao \in DOMAIN config.default_runways
  THEN Some(config.default_runways[icao]) ELSE None

engm_assignment_left_side(source, runway_direction, mode) ==
  CASE mode = "Mixed" ->
         Ok(<<source, << <<runway_direction \o <<"L">>, "Both">>,
                         <<runway_direction \o <<"R">>, "Both">> >> >>)
    [] mode = "Segregated" ->
         Ok(<<source, << <<runway_direction \o <<"L">>, "Departing">>,
                         <<runway_direction \o <<"R">>, "Arriving">> >> >>)
    [] mode = "Single" ->
         Ok(<<source, << <<runway_direction \o <<"L">>, "Both">> >> >>)

\* the match on the mode at the end of set_runway_for_engm
engm_assignment(source, runway_direction, mode) ==
  CASE mode = "Mixed" ->
         Ok(<<source, << <<runway_direction \o <<"L">>, "Both">>,
                         <<runway_direction \o <<"R">>, "Both">> >> >>)
    [] mode = "Segregated" ->
         Ok(<<source, << <<runway_direction \o <<"L">>, "Departing">>,
                         <<runway_direction \o <<"R">>, "Arriving">> >> >>)
    [] mode = "Single" ->
         IF runway_direction = <<"0", "1">>
         THEN Ok(<<source, << <<<<"0", "1", "L">>, "Both">> >> >>)
         ELSE IF runway_direction = <<"1", "9">>
         THEN Ok(<<source, << <<<<"1", "9", "R">>, "Both">> >> >>)
         ELSE Panic("engm_invalid_runway_direction")

\* source and runway_direction from the wind-based pick of the first pair
engm_source(wind_sel) == IF IsSome(wind_sel) THEN "Metar" ELSE "Default"

engm_runway_direction_hardcoded(wind_sel, default) ==
  IF IsSome(wind_sel) THEN Prefix2(Unwrap(wind_sel)[1][1])
  ELSE <<"0", "1">>

engm_runway_direction(wind_sel, default) ==
  IF IsSome(wind_sel) THEN Prefix2(Unwrap(wind_sel)[1][1])
  ELSE IF IsSome(default) THEN Format02(Unwrap(default))
  ELSE <<"0", "1">>

engm_with_wind_selection(airport, cfg, t, wind_sel) ==
  engm_assignment(engm_source(wind_sel),
                  engm_runway_direction(wind_sel, ConfigDefault(cfg, airport.icao)),
                  engm_mode(t, AnyWeatherFlag(airport)))

set_runway_for_engm(airport, cfg, t) ==
  engm_with_wind_selection(airport, cfg, t,
                           internal_set_runway_based_on_metar_wind(airport, 0))

\* ------------------------------------------------------------------------
\* Inputs: sector files, configurations, METAR batches, ATIS feeds, clock
\* ------------------------------------------------------------------------
Id(a, b) == <<a, b>>

Id3(a, b, c) == <<a, b, c>>

\* [RUNWAY] section lines per airport: pairs of runway directions
Geometry ==
  [ENGM |-> << <<RunwayDirection(Id3("0", "1", "L"), 14),
                 RunwayDirection(Id3("1", "9", "R"), 194)>>,
               <<RunwayDirection(Id3("0", "1", "R"), 14),
                 RunwayDirection(Id3("1", "9", "L"), 194)>> >>,
   ENZV |-> << <<RunwayDirection(Id("1", "8"), 178),
                 RunwayDirection(Id("3", "6"), 358)>>,
               <<RunwayDirection(Id("1", "0"), 108),
                 RunwayDirection(Id("2", "8"), 288)>> >>,
   ENHV |-> << <<RunwayDirection(Id("0", "8"), 80),
                 RunwayDirection(Id("2", "6"), 260)>> >>,
   ENXX |-> << <<RunwayDirection(Id("0", "4"), 40),
                 RunwayDirection(Id("2", "2"), 220)>>,
               <<RunwayDirection(Id("1", "3"), 130),
                 RunwayDirection(Id("3", "1"), 310)>> >>]

\* order in which the airports first appear in the sector file
SectorFiles ==
  { <<"ENGM", "ENZV", "ENHV">>,
    <<"ENHV", "ENXX", "ENGM">>,
    <<"ENGM", "ENXX">> }

Configs ==
  { [ignore_airports |-> {}, default_runways |-> <<>>],
    [ignore_airports |-> {"ENXX"},
     default_runways |-> [ENGM |-> 19, ENHV |-> 8, ENZV |-> 18]],
    [ignore_airports |-> {},
     default_runways |-> [ENGM |-> 7, ENHV |-> 5]] }

Heading(deg) == [kind |-> "Heading", track |-> Some(deg)]

HeadingUndefined == [kind |-> "Heading", track |-> None]

VariableDir == [kind |-> "Variable"]

Wind(dir, speed, varying) ==
  [dir |-> dir, speed |-> speed, varying |-> varying]

Cavok == [kind |-> "Cavok"]

Described(visibility, rvr, clouds, vv, present_weather) ==
  [kind |-> "Described",
   visibility |-> visibility,
   rvr |-> rvr,
   clouds |-> clouds,
   vertical_visibility |-> vv,
   present_weather |-> present_weather]

Meters(v) == [unit |-> "Meters", value |-> v]

CloudData(coverage, height) ==
  [kind |-> "CloudData", coverage |-> coverage, height |-> height]

Weather(descriptor, phenomena) ==
  [descriptor |-> descriptor, phenomena |-> phenomena]

Metar(icao, wind, obscuration, temp) ==
  [icao |-> icao, wind |-> wind, obscuration |-> obscuration,
   temprature |-> [temp |-> temp]]

Clear9999 == Described(Meters(Some(9999)), <<>>,
                       <<CloudData(Some("Few"), Some(30))>>, None, <<>>)

MetarSamples ==
  { \* ENGM 02006KT CAVOK 10/05
    Metar("ENGM", Wind(Heading(20), Some(6), None), Cavok, Some(10)),
    \* ENGM VRB03KT 9999 -SHSN OVC009 M09/M12
    Metar("ENGM", Wind(VariableDir, Some(3), None),
          Described(Meters(Some(9999)), <<>>,
                    <<CloudData(Some("Overcast"), Some(9))>>, None,
                    <<Weather(Some("Showers"), <<Some("SN")>>)>>),
          Some(-9)),
    \* ENGM 19010KT 9999 FEW030 10/05
    Metar("ENGM", Wind(Heading(190), Some(10), None), Clear9999, Some(10)),
    \* ENGM 19010KT 9999 R01L/0800 FEW030 10/05
    Metar("ENGM", Wind(Heading(190), Some(10), None),
          Described(Meters(Some(9999)), <<"R01L/0800">>,
                    <<CloudData(Some("Few"), Some(30))>>, None, <<>>),
          Some(10)),
    \* ENGM 01004KT 3000 NSC 10/05
    Metar("ENGM", Wind(Heading(10), Some(4), None),
          Described(Meters(Some(3000)), <<>>, <<[kind |-> "NSC"]>>, None, <<>>),
          Some(10)),
    \* ENGM /////KT 9999 VV002 10/05
    Metar("ENGM", Wind(HeadingUndefined, None, None),
          Described(Meters(Some(9999)), <<>>, <<>>, Some(2), <<>>),
          Some(10)),
    \* ENGM 01004KT 9999 FZDU SCT004 BKN020 10/05
    Metar("ENGM", Wind(Heading(10), Some(4), None),
          Described(Meters(Some(9999)), <<>>,
                    <<CloudData(Some("Scattered"), Some(4)),
                      CloudData(Some("Broken"), Some(20))>>, None,
                    <<Weather(Some("Freezing"), <<Some("DU")>>)>>),
          Some(10)),
    \* ENGM 00000KT 9999 RA FEW030 ///// : rain, temperature undefined
    Metar("ENGM", Wind(Heading(0), Some(0), None),
          Described(Meters(Some(9999)), <<>>,
                    <<CloudData(Some("Few"), Some(30))>>, None,
                    <<Weather(None, <<Some("RA")>>)>>),
          None),
    \* ENGM 00000KT 9999 ///014 10/05 : coverage undefined at 1400 ft
    Metar("ENGM", Wind(Heading(0), Some(0), None),
          Described(Meters(Some(9999)), <<>>,
                    <<CloudData(None, Some(14))>>, None, <<>>),
          Some(10)),
    \* ENGM 01004KT //// NSC 10/05 : visibility undefined
    Metar("ENGM", Wind(Heading(10), Some(4), None),
          Described(Meters(None), <<>>, <<[kind |-> "NSC"]>>, None, <<>>),
          Some(10)),
    \* ENHV 08008KT 9999 FEW030 08/07
    Metar("ENHV", Wind(Heading(80), Some(8), None), Clear9999, Some(8)),
    \* ENHV 08001KT: headwinds 1 and -1
    Metar("ENHV", Wind(Heading(80), Some(1), None), Clear9999, Some(8)),
    \* ENHV 30009KT 250V330
    Metar("ENHV", Wind(Heading(300), Some(9), Some(<<Some(250), Some(330)>>)),
          Clear9999, Some(8)),
    \* ENHV 170//KT: speed undefined
    Metar("ENHV", Wind(Heading(170), None, None), Clear9999, Some(8)),
    \* ENZV 18005KT
    Metar("ENZV", Wind(Heading(180), Some(5), None), Cavok, Some(8)),
    \* ENZV 27030KT: crosswind on 18/36, headwind on 28
    Metar("ENZV", Wind(Heading(270), Some(30), None), Cavok, Some(8)),
    \* ENZV VRB20KT
    Metar("ENZV", Wind(VariableDir, Some(20), None), Cavok, Some(8)),
    \* ENXX 04010KT
    Metar("ENXX", Wind(Heading(40), Some(10), None), Cavok, Some(8)) }

\* One ATIS entry of the VATSIM feed: the first four characters of the
\* callsign and, when text_atis is present, what find_runway_in_use_from_atis
\* extracts from the joined text.
Atis(icao, text) == [icao |-> icao, text_atis |-> text]

AtisSamples ==
  { Atis("ENGM", Some(<< <<Id3("0", "1", "R"), "Arriving">> >>)),
    Atis("ENGM", Some(<< <<Id3("0", "1", "L"), "Departing">>,
                         <<Id3("0", "1", "R"), "Departing">> >>)),
    Atis("ENHV", Some(<< <<Id("2", "6"), "Both">> >>)),
    Atis("ENHV", Some(<< <<Id("2", "6"), "Arriving">> >>)),
    Atis("ENHV", Some(<<>>)),
    Atis("ENZV", None),
    Atis("ENBR", Some(<< <<Id("1", "7"), "Both">> >>)) }

\* Zoned::now() in Europe/Oslo, minutes since local midnight
ClockSamples == {EarlyMorning - 1, EarlyMorning, LateEvening - 1, LateEvening}

\* Sequences over S of length at most n
RECURSIVE SeqsUpTo(_, _)
SeqsUpTo(S, n) ==
  IF n = 0 THEN {<<>>}
  ELSE LET shorter == SeqsUpTo(S, n - 1)
       IN shorter \cup {Append(s, x) : s \in shorter, x \in S}

\* ------------------------------------------------------------------------
\* State
\* ------------------------------------------------------------------------
VARIABLES
  pc,        \* position of run() in main.rs
  config,    \* ESConfig: ignore_airports, default_runways
  airports,  \* Airports.airports: IndexMap<String, Airport> in map order
  now,       \* the Zoned::now() reading of set_runway_for_engm, an Option
  fatal,     \* Option: the panic that ended the process
  rwy_file,  \* lines written to the EuroScope .rwy file, <<>> before
  report,    \* AirportsConfigReportData built by the last report
  merged,    \* the merged_with calls of read_atis_and_apply_runways:
             \* <<existing, other, result>>
  probe,     \* Option: one call of a policy or projection on its own, as
             \* [op, airport, out]; None throughout a run of the pipeline
  feed       \* Option: one call of get_metars, as the attempts made for
             \* each URL and the result; None outside such a call

vars ==
  <<pc, config, airports, now, fatal, rwy_file, report, merged, probe, feed>>

\* IndexMap<RunwayInUseSource, _> : a function on the present sources
EmptyInUse == <<>>

Put(f, k, v) == [x \in (DOMAIN f) \cup {k} |-> IF x = k THEN v ELSE f[x]]

NewAirport(icao) ==
  [icao |-> icao, metar |-> None, runways |-> Geometry[icao],
   runways_in_use |-> EmptyInUse]

ActiveAirportLine(icao, flag) ==
  [kind |-> "ACTIVE_AIRPORT", icao |-> icao, flag |-> flag]

ActiveRunwayLine(icao, runway, flag) ==
  [kind |-> "ACTIVE_RUNWAY", icao |-> icao, runway |-> runway, flag |-> flag]

EmptyLine == [kind |-> "EMPTY"]

\* contents of the .rwy file that the run finds and replaces
RwyFiles ==
  { <<>>,
    <<ActiveAirportLine("ENGM", 1), ActiveAirportLine("ENHV", 0),
      ActiveRunwayLine("ENZV", Id("1", "8"), 1),
      ActiveRunwayLine("ENZV", Id("1", "8"), 0)>> }

Init ==
  /\ pc = "new"
  /\ config \in Configs
  /\ airports = <<>>
  /\ now = None
  /\ fatal = None
  /\ rwy_file = <<>>
  /\ report = <<>>
  /\ merged = {}
  /\ probe = None
  /\ feed = None

\* Airports::load_airports_from_sector_file into the empty Airports
load_airports_from_sector_file(sct) ==
  LET Kept(icao) == icao \notin config.ignore_airports
      icaos == SelectSeq(sct, Kept)
  IN [i \in DOMAIN icaos |-> NewAirport(icaos[i])]

Load ==
  /\ pc = "new"
  /\ \E sct \in SectorFiles : airports' = load_airports_from_sector_file(sct)
  /\ pc' = "loaded"
  /\ UNCHANGED <<config, now, fatal, rwy_file, report, merged, probe, feed>>

\* get_metars: the decoded reports of the stations that are not ignored
get_metars(batch) ==
  LET Kept(metar) == metar.icao \notin config.ignore_airports
  IN SelectSeq(batch, Kept)

\* the metar an airport holds after add_metars: the last one for its icao
RECURSIVE attach_metars(_, _)
attach_metars(airport, metars) ==
  IF metars = <<>> THEN airport
  ELSE attach_metars(
         IF Head(metars).icao = airport.icao
         THEN [airport EXCEPT !.metar = Some(Head(metars))]
         ELSE airport,
         Tail(metars))

AddMetars ==
  /\ pc = "loaded"
  /\ \E batch \in SeqsUpTo(MetarSamples, MaxMetars) :
       airports' = [i \in DOMAIN airports |->
                      attach_metars(airports[i], get_metars(batch))]
  /\ pc' = "metars"
  /\ UNCHANGED <<config, now, fatal, rwy_file, report, merged, probe, feed>>

\* the inner loop of read_atis_and_apply_runways over one bulletin
RECURSIVE apply_atis_runways(_, _)
apply_atis_runways(in_use, found) ==
  IF found = <<>> THEN in_use
  ELSE LET existing == IF "Atis" \in DOMAIN in_use THEN in_use["Atis"] ELSE <<>>
       IN apply_atis_runways(
            Put(in_use, "Atis",
                MapUpsert(existing, Head(found)[1], Head(found)[2])),
            Tail(found))

apply_atis_entry(airport, atis) ==
  IF airport.icao = atis.icao /\ IsSome(atis.text_atis)
  THEN [airport EXCEPT !.runways_in_use =
          apply_atis_runways(@, Unwrap(atis.text_atis))]
  ELSE airport

RECURSIVE apply_atis_entries(_, _)
apply_atis_entries(airport, atis_entries) ==
  IF atis_entries = <<>> THEN airport
  ELSE apply_atis_entries(apply_atis_entry(airport, Head(atis_entries)),
                          Tail(atis_entries))

\* the and_modify calls of one bulletin on an Atis map
RECURSIVE runway_merges(_, _)
runway_merges(map, found) ==
  IF found = <<>> THEN {}
  ELSE (IF MapHas(map, Head(found)[1])
        THEN {<<MapGet(map, Head(found)[1]), Head(found)[2],
                MapGet(MapUpsert(map, Head(found)[1], Head(found)[2]),
                       Head(found)[1])>>}
        ELSE {})
       \cup runway_merges(MapUpsert(map, Head(found)[1], Head(found)[2]),
                          Tail(found))

entry_merges(airport, atis) ==
  IF airport.icao = atis.icao /\ IsSome(atis.text_atis)
  THEN runway_merges(IF "Atis" \in DOMAIN airport.runways_in_use
                     THEN airport.runways_in_use["Atis"] ELSE <<>>,
                     Unwrap(atis.text_atis))
  ELSE {}

RECURSIVE atis_merges(_, _)
atis_merges(airport, atis_entries) ==
  IF atis_entries = <<>> THEN {}
  ELSE entry_merges(airport, Head(atis_entries))
       \cup atis_merges(apply_atis_entry(airport, Head(atis_entries)),
                        Tail(atis_entries))

\* read_atis_and_apply_runways for the bulletins v3_data.atis
ReadAtisEntries(atis_entries) ==
  /\ airports' = [i \in DOMAIN airports |->
                    apply_atis_entries(airports[i], atis_entries)]
  /\ merged' = UNION {atis_merges(airports[i], atis_entries) :
                        i \in DOMAIN airports}

ReadAtis ==
  /\ pc = "metars"
  /\ \E atis_entries \in SeqsUpTo(AtisSamples, MaxAtis) :
       ReadAtisEntries(atis_entries)
  /\ pc' = "atis"
  /\ UNCHANGED <<config, now, fatal, rwy_file, report, probe, feed>>

\* ------------------------------------------------------------------------
\* airports.rs: runway_in_use_based_on_metar
\* ------------------------------------------------------------------------
\* airport.runways_in_use.insert(source, runway_in_use) for ENGM
record_engm(airport, r) ==
  IF r.kind = "Ok"
  THEN Ok([airport EXCEPT !.runways_in_use = Put(@, r.value[1], r.value[2])])
  ELSE r

record_wind_unchecked(airport, r) ==
  IF r.kind = "Panic" THEN r
  ELSE IF r.kind = "Ok"
  THEN Ok([airport EXCEPT !.runways_in_use = Put(@, "Metar", r.value)])
  ELSE Ok([airport EXCEPT !.runways_in_use = Put(@, "Metar", <<>>)])

\* if let Ok(runways_in_use) = ... && !runways_in_use.is_empty()
record_wind(airport, r) ==
  IF r.kind = "Panic" THEN r
  ELSE IF r.kind = "Ok" /\ r.value # <<>>
  THEN Ok([airport EXCEPT !.runways_in_use = Put(@, "Metar", r.value)])
  ELSE Ok(airport)

\* the loop body for one airport: the airport afterwards, or the panic
metar_step(airport, t) ==
  IF airport.icao = "ENGM"
  THEN record_engm(airport, set_runway_for_engm(airport, config, t))
  ELSE record_wind(airport, set_runway_based_on_metar_wind(airport))

\* index of the first loop body that panics, 0 when none does
FirstPanic(steps) ==
  LET bad == {i \in DOMAIN steps : steps[i].kind = "Panic"}
  IN IF bad = {} THEN 0 ELSE CHOOSE i \in bad : \A j \in bad : i <= j

\* the airports that the loop body ran for
Walked(steps) ==
  IF FirstPanic(steps) = 0 THEN DOMAIN steps ELSE 1..FirstPanic(steps)

\* the loop ending one airport early: the last airport keeps its state
walk_result_skips_last(aps, steps) ==
  [i \in DOMAIN aps |->
     IF i < Len(aps) /\ (FirstPanic(steps) = 0 \/ i < FirstPanic(steps))
     THEN steps[i].value ELSE aps[i]]

\* the airports after the loop: those before the first panic are updated
walk_result(aps, steps) ==
  [i \in DOMAIN aps |->
     IF FirstPanic(steps) = 0 \/ i < FirstPanic(steps)
     THEN steps[i].value ELSE aps[i]]

walk_fatal(aps, steps) ==
  IF FirstPanic(steps) = 0 THEN None
  ELSE Some([panic |-> steps[FirstPanic(steps)].panic,
             icao |-> aps[FirstPanic(steps)].icao])

EngmWalked(aps, steps) == \E i \in Walked(steps) : aps[i].icao = "ENGM"

RunwayInUseBasedOnMetar ==
  /\ pc = "atis"
  /\ \E t \in ClockSamples :
       \E steps \in {[i \in DOMAIN airports |-> metar_step(airports[i], t)]} :
         /\ airports' = walk_result(airports, steps)
         /\ now' = IF EngmWalked(airports, steps) THEN Some(t) ELSE now
         /\ fatal' = walk_fatal(airports, steps)
         /\ pc' = IF FirstPanic(steps) = 0 THEN "metar_selected" ELSE "panicked"
  /\ UNCHANGED <<config, rwy_file, report, merged, probe, feed>>

\* ------------------------------------------------------------------------
\* airports.rs: apply_default_runways
\* ------------------------------------------------------------------------
HasDirectionNumbered(airport, identifier) ==
  \E i \in DOMAIN airport.runways :
    \E d \in DOMAIN airport.runways[i] :
      Prefix2(airport.runways[i][d].identifier) = identifier

\* a loop body that inserts over an occupied Default entry
default_insert_overwrites(airport, default) ==
  IF IsSome(default) /\ HasDirectionNumbered(airport, Format02(Unwrap(default)))
  THEN [airport EXCEPT !.runways_in_use =
          Put(@, "Default", << <<Format02(Unwrap(default)), "Both">> >>)]
  ELSE airport

\* the loop body of apply_default_runways, default = defaults.get(icao)
default_insert(airport, default) ==
  IF "Default" \in DOMAIN airport.runways_in_use THEN airport
  ELSE IF IsSome(default)
  THEN IF HasDirectionNumbered(airport, Format02(Unwrap(default)))
       THEN [airport EXCEPT !.runways_in_use =
               Put(@, "Default", << <<Format02(Unwrap(default)), "Both">> >>)]
       ELSE airport
  ELSE airport

default_step(airport) ==
  default_insert(airport, ConfigDefault(config, airport.icao))

ApplyDefaultRunways ==
  /\ pc = "metar_selected"
  /\ airports' = [i \in DOMAIN airports |-> default_step(airports[i])]
  /\ pc' = "selected"
  /\ UNCHANGED <<config, now, fatal, rwy_file, report, merged, probe, feed>>

\* ------------------------------------------------------------------------
\* airports.rs: sort (sort_unstable_keys on the icao strings)
\* ------------------------------------------------------------------------
\* the icao codes of the model in lexicographic order
IcaoOrder == <<"ENBR", "ENGM", "ENHV", "ENXX", "ENZV">>

IcaoRank(icao) == CHOOSE i \in DOMAIN IcaoOrder : IcaoOrder[i] = icao

sort_keys(aps) ==
  LET Before(i) == Cardinality({j \in DOMAIN aps :
                       IcaoRank(aps[j].icao) < IcaoRank(aps[i].icao)})
  IN [k \in DOMAIN aps |->
        aps[CHOOSE i \in DOMAIN aps : Before(i) = k - 1]]

Sort ==
  /\ pc = "selected"
  /\ airports' = sort_keys(airports)
  /\ pc' = "sorted"
  /\ UNCHANGED <<config, now, fatal, rwy_file, report, merged, probe, feed>>

\* ------------------------------------------------------------------------
\* config.rs: the .rwy writer
\* ------------------------------------------------------------------------
\* a reader that keeps every ACTIVE_AIRPORT line of the file
RECURSIVE read_active_airport_anywhere(_)
read_active_airport_anywhere(lines) ==
  IF lines = <<>> THEN <<>>
  ELSE IF Head(lines).kind = "ACTIVE_AIRPORT"
  THEN <<Head(lines)>> \o read_active_airport_anywhere(Tail(lines))
  ELSE read_active_airport_anywhere(Tail(lines))

\* the lines of the file up to the first that does not start with
\* "ACTIVE_AIRPORT:"
RECURSIVE read_active_airport(_)
read_active_airport(lines) ==
  IF lines = <<>> THEN <<>>
  ELSE IF Head(lines).kind = "ACTIVE_AIRPORT"
  THEN <<Head(lines)>> \o read_active_airport(Tail(lines))
  ELSE <<>>

RECURSIVE flag_lines(_, _, _)
flag_lines(icao, runway, flags) ==
  IF flags = <<>> THEN <<>>
  ELSE <<ActiveRunwayLine(icao, runway, Head(flags))>>
       \o flag_lines(icao, runway, Tail(flags))

RECURSIVE selection_lines(_, _)
selection_lines(icao, selection) ==
  IF selection = <<>> THEN <<>>
  ELSE flag_lines(icao, Head(selection)[1],
                  active_runway_flags(Head(selection)[2]))
       \o selection_lines(icao, Tail(selection))

\* for selection_method in default_sort_order(): every present source
RECURSIVE airport_lines(_, _)
airport_lines(airport, methods) ==
  IF methods = <<>> THEN <<>>
  ELSE (IF Head(methods) \in DOMAIN airport.runways_in_use
        THEN selection_lines(airport.icao,
                             airport.runways_in_use[Head(methods)])
        ELSE <<>>)
       \o airport_lines(airport, Tail(methods))

RECURSIVE runway_lines(_)
runway_lines(aps) ==
  IF aps = <<>> THEN <<>>
  ELSE (IF Head(aps).runways = <<>> THEN <<>>
        ELSE airport_lines(Head(aps), default_sort_order))
       \o runway_lines(Tail(aps))

\* writeln!(writer, "{}", start_of_file): the kept lines, or one empty line
write_runway_file(aps, start_of_file) ==
  (IF start_of_file = <<>> THEN <<EmptyLine>> ELSE start_of_file)
  \o runway_lines(aps)

Write ==
  /\ pc = "sorted"
  /\ \E file \in RwyFiles :
       rwy_file' = write_runway_file(airports, read_active_airport(file))
  /\ pc' = "written"
  /\ UNCHANGED <<config, airports, now, fatal, report, merged, probe, feed>>

\* ------------------------------------------------------------------------
\* airports.rs: grouped report data
\* ------------------------------------------------------------------------
RECURSIVE find_map_source(_, _)
find_map_source(airport, order) ==
  IF order = <<>> THEN None
  ELSE IF Head(order) \in DOMAIN airport.runways_in_use
  THEN Some(Head(order))
  ELSE find_map_source(airport, Tail(order))

preferred_source_last(airport) ==
  find_map_source(airport, <<"Default", "Metar", "Atis">>)

\* Option<RunwayInUseSource> of the preferred selection
preferred_source(airport) == find_map_source(airport, default_sort_order)

preferred_row(airport) ==
  IF IsSome(preferred_source(airport))
  THEN <<airport.icao, airport.runways_in_use[Unwrap(preferred_source(airport))]>>
  ELSE <<airport.icao, <<>>>>

push_row_keeps_last(data, key, row) ==
  IF \E g \in DOMAIN data : data[g].key = key
  THEN [g \in DOMAIN data |->
          IF data[g].key = key
          THEN [data[g] EXCEPT !.rows = <<row>>]
          ELSE data[g]]
  ELSE Append(data, [key |-> key, rows |-> <<row>>])

\* data.entry(key).or_default().push(row)
push_row(data, key, row) ==
  IF \E g \in DOMAIN data : data[g].key = key
  THEN [g \in DOMAIN data |->
          IF data[g].key = key
          THEN [data[g] EXCEPT !.rows = Append(@, row)]
          ELSE data[g]]
  ELSE Append(data, [key |-> key, rows |-> <<row>>])

RECURSIVE group_airports(_, _)
group_airports(data, aps) ==
  IF aps = <<>> THEN data
  ELSE group_airports(
         push_row(data, preferred_source(Head(aps)), preferred_row(Head(aps))),
         Tail(aps))

\* Ord of Option<RunwayInUseSource> in sort_runway_config_report_data
KeyRank(key) ==
  IF key = None THEN 4
  ELSE CHOOSE i \in DOMAIN default_sort_order :
         default_sort_order[i] = Unwrap(key)

sort_runway_config_report_data(data) ==
  LET Before(g) == Cardinality({h \in DOMAIN data :
                       KeyRank(data[h].key) < KeyRank(data[g].key)})
  IN [k \in DOMAIN data |->
        data[CHOOSE g \in DOMAIN data : Before(g) = k - 1]]

grouped_runway_config_report_data(aps) ==
  sort_runway_config_report_data(group_airports(<<>>, aps))

Report ==
  /\ pc = "written"
  /\ report' = grouped_runway_config_report_data(airports)
  /\ pc' = "done"
  /\ UNCHANGED <<config, airports, now, fatal, rwy_file, merged, probe, feed>>

\* ------------------------------------------------------------------------
\* Properties
\* ------------------------------------------------------------------------
AirportAt(icao) == airports[CHOOSE i \in DOMAIN airports : airports[i].icao = icao]

\* positions <<group, row>> of the report that name the airport
ReportPositions(icao) ==
  {<<g, r>> \in (DOMAIN report) \X (1..Len(airports)) :
     r \in DOMAIN report[g].rows /\ report[g].rows[r][1] = icao}

\* the first source with an entry, in the order Atis, Metar, Default
FirstPresent(in_use) ==
  IF "Atis" \in DOMAIN in_use THEN Some("Atis")
  ELSE IF "Metar" \in DOMAIN in_use THEN Some("Metar")
  ELSE IF "Default" \in DOMAIN in_use THEN Some("Default")
  ELSE None

\* C1: in the report data every airport's selection is the usage map of the
\* first source present in runways_in_use in the order Atis, Metar, Default;
\* with all three present it is the Atis map.
C1_ReportUsesFirstPresentSource ==
  pc = "done" =>
    \A i \in DOMAIN airports :
      /\ ReportPositions(airports[i].icao) # {}
      /\ \A p \in ReportPositions(airports[i].icao) :
           LET in_use == airports[i].runways_in_use
               row == report[p[1]].rows[p[2]]
           IN /\ IsSome(FirstPresent(in_use)) =>
                   row[2] = in_use[Unwrap(FirstPresent(in_use))]
              /\ DOMAIN in_use = RunwayInUseSource => row[2] = in_use["Atis"]

C1_Witness ==
  /\ pc = "done"
  /\ \E i \in DOMAIN airports :
       /\ DOMAIN airports[i].runways_in_use = RunwayInUseSource
       /\ airports[i].runways_in_use["Atis"] # airports[i].runways_in_use["Metar"]
       /\ airports[i].runways_in_use["Atis"] # airports[i].runways_in_use["Default"]

\* the ACTIVE_RUNWAY lines of the file that name the airport
RunwayLinesOf(icao) ==
  LET IsOf(line) == line.kind = "ACTIVE_RUNWAY" /\ line.icao = icao
  IN SelectSeq(rwy_file, IsOf)

\* C2: write_runway_file writes ACTIVE_RUNWAY records only for the map of the
\* first present source; no record comes from a lower-precedence source.
C2_OnlyFirstPresentSourceWritten ==
  pc = "written" =>
    \A i \in DOMAIN airports :
      LET in_use == airports[i].runways_in_use
      IN IsSome(FirstPresent(in_use)) =>
           RunwayLinesOf(airports[i].icao)
             = selection_lines(airports[i].icao,
                               in_use[Unwrap(FirstPresent(in_use))])

\* C3: merged_with is commutative and idempotent: Both absorbs, Arriving
\* with Departing is Both in either order, equal usages stay; for all pairs
\* of usages and for every merge read_atis_and_apply_runways performed.
C3_MergedWithCommutativeIdempotent ==
  /\ \A a \in RunwayUse : \A b \in RunwayUse :
       /\ merged_with(a, b) = merged_with(b, a)
       /\ merged_with(a, a) = a
       /\ (a = "Both" => merged_with(a, b) = "Both")
       /\ ({a, b} = {"Arriving", "Departing"} => merged_with(a, b) = "Both")
  /\ \A m \in merged :
       /\ m[3] = merged_with(m[2], m[1])
       /\ (m[1] = m[2] => m[3] = m[1])
       /\ ("Both" \in {m[1], m[2]} => m[3] = "Both")
       /\ ({m[1], m[2]} = {"Arriving", "Departing"} => m[3] = "Both")

C3_Witness == <<"Arriving", "Departing", "Both">> \in merged

\* C4: every source key present in runways_in_use maps to a non-empty map.
C4_NoEmptyUsageMap ==
  \A i \in DOMAIN airports :
    \A source \in DOMAIN airports[i].runways_in_use :
      airports[i].runways_in_use[source] # <<>>

\* all three operations ran; one airport got no decision, another got some
C4_Witness ==
  /\ pc = "selected"
  /\ \E i \in DOMAIN airports :
       /\ airports[i].runways_in_use = EmptyInUse
       /\ airports[i].icao # "ENGM"
  /\ \E i \in DOMAIN airports :
       "Metar" \in DOMAIN airports[i].runways_in_use

\* C5: every airport is in exactly one group of the report data: that of its
\* first present source, or the None group iff it has no entry at all.
C5_EveryAirportInExactlyOneGroup ==
  pc = "done" =>
    \A i \in DOMAIN airports :
      /\ Cardinality(ReportPositions(airports[i].icao)) = 1
      /\ \A p \in ReportPositions(airports[i].icao) :
           /\ report[p[1]].key = FirstPresent(airports[i].runways_in_use)
           /\ (report[p[1]].key = None
                 <=> airports[i].runways_in_use = EmptyInUse)

C5_Witness ==
  /\ pc = "done"
  /\ \E g \in DOMAIN report : report[g].key = None
  /\ \E g \in DOMAIN report :
       report[g].key = Some("Metar") /\ Len(report[g].rows) = 2

\* position of the airport whose loop body panicked, 0 when none did
FatalIndex ==
  IF IsSome(fatal)
  THEN CHOOSE i \in DOMAIN airports : airports[i].icao = Unwrap(fatal).icao
  ELSE 0

AfterMetarWalk == pc \in {"metar_selected", "panicked"}

\* the loop body of runway_in_use_based_on_metar ran to its end for airport i
Completed(i) ==
  \/ pc = "metar_selected"
  \/ pc = "panicked" /\ i < FatalIndex

SinglePair(airport) ==
  /\ airport.icao \notin {"ENGM", "ENZV"}
  /\ Len(airport.runways) = 1

\* the headwinds of the two directions of the only runway pair
HeadwindOf(airport, d) == runway_max_headwind(airport, airport.runways[1][d])

HeadwindsResolvable(airport) ==
  IsSome(HeadwindOf(airport, 1)) /\ IsSome(HeadwindOf(airport, 2))

\* the direction with the strictly larger headwind, more than 2 apart
StrictlyLarger(airport, d, e) ==
  /\ HeadwindsResolvable(airport)
  /\ Unwrap(HeadwindOf(airport, d)) - Unwrap(HeadwindOf(airport, e)) > 2

\* C6: for a single-pair airport other than ENGM and ENZV the wind policy
\* returns {d: Both}, d the direction whose headwind is larger by more than
\* 2, exactly when both headwinds are resolvable and differ by more than 2;
\* otherwise it returns NoRunwayToSet; the walk records exactly the former.
\* Stated on the airports as runway_in_use_based_on_metar leaves them.
C6_SinglePairHeadwindDecision ==
  AfterMetarWalk =>
    \A i \in DOMAIN airports :
      SinglePair(airports[i]) =>
        LET a == airports[i]
            r == set_runway_based_on_metar_wind(a)
            decided == StrictlyLarger(a, 1, 2) \/ StrictlyLarger(a, 2, 1)
        IN /\ \A d \in 1..2 :
                StrictlyLarger(a, d, 3 - d) =>
                  r = Ok(<< <<a.runways[1][d].identifier, "Both">> >>)
           /\ ~decided => r = Err("NoRunwayToSet")
           /\ Completed(i) =>
                /\ "Metar" \in DOMAIN a.runways_in_use <=> decided
                /\ decided => a.runways_in_use["Metar"] = r.value

\* a single-pair airport whose first direction has the larger headwind
C6_Witness ==
  /\ pc = "metar_selected"
  /\ \E i \in DOMAIN airports :
       /\ SinglePair(airports[i])
       /\ StrictlyLarger(airports[i], 1, 2)
       /\ airports[i].runways_in_use["Metar"]
            = << <<airports[i].runways[1][1].identifier, "Both">> >>

\* the observation is missing or its wind speed is not resolvable
Unresolved(airport) ==
  \/ ~IsSome(airport.metar)
  \/ ~IsSome(get_max_wind_speed(Unwrap(airport.metar).wind.speed))

\* the loop body of runway_in_use_based_on_metar was entered for airport i
Entered(i) ==
  \/ pc = "metar_selected"
  \/ pc = "panicked" /\ i <= FatalIndex

PanickedAt(i) == pc = "panicked" /\ i = FatalIndex

\* C7 as stated: ENGM, ENZV and every single-pair airport with a missing or
\* unresolvable observation gets no Metar entry and the walk does not panic
\* at it.
C7_NoMetarEntryAndNoPanic ==
  AfterMetarWalk =>
    \A i \in DOMAIN airports :
      (/\ Entered(i)
       /\ Unresolved(airports[i])
       /\ (airports[i].icao \in {"ENGM", "ENZV"} \/ SinglePair(airports[i])))
      => /\ "Metar" \notin DOMAIN airports[i].runways_in_use
         /\ ~PanickedAt(i)

\* the configured default direction of ENGM as set_runway_for_engm formats
\* it, "01" when none is configured
EngmFallbackDirection ==
  IF IsSome(ConfigDefault(config, "ENGM"))
  THEN Format02(Unwrap(ConfigDefault(config, "ENGM")))
  ELSE <<"0", "1">>

\* C7 amended: with a missing or unresolvable observation a single-pair
\* airport gets no Metar entry and no panic; ENGM gets no Metar entry and
\* its selection goes under Default, with a panic exactly before 06:30 when
\* the fallback direction is neither 01 nor 19; ENZV gets {18: Both} under
\* Metar and no panic.
C7_UnresolvedObservationOutcome ==
  AfterMetarWalk =>
    \A i \in DOMAIN airports :
      (Entered(i) /\ Unresolved(airports[i])) =>
        LET a == airports[i]
        IN /\ SinglePair(a) =>
                "Metar" \notin DOMAIN a.runways_in_use /\ ~PanickedAt(i)
           /\ a.icao = "ENGM" =>
                /\ "Metar" \notin DOMAIN a.runways_in_use
                /\ PanickedAt(i) <=>
                     /\ Unwrap(now) < EarlyMorning
                     /\ EngmFallbackDirection \notin {<<"0", "1">>, <<"1", "9">>}
                /\ PanickedAt(i) =>
                     Unwrap(fatal).panic = "engm_invalid_runway_direction"
                /\ ~PanickedAt(i) => "Default" \in DOMAIN a.runways_in_use
           /\ a.icao = "ENZV" =>
                /\ ~PanickedAt(i)
                /\ "Metar" \in DOMAIN a.runways_in_use
                /\ a.runways_in_use["Metar"] = << <<Id("1", "8"), "Both">> >>

\* the walk ended with ENZV and a single-pair airport both unobserved
C7_Witness ==
  /\ pc = "metar_selected"
  /\ \E i \in DOMAIN airports :
       /\ airports[i].icao = "ENZV"
       /\ Unresolved(airports[i])
       /\ "Metar" \in DOMAIN airports[i].runways_in_use
  /\ \E i \in DOMAIN airports :
       /\ SinglePair(airports[i])
       /\ Unresolved(airports[i])
       /\ IsSome(airports[i].metar)
       /\ "Metar" \notin DOMAIN airports[i].runways_in_use

Unsupported(airport) ==
  /\ airport.icao \notin {"ENGM", "ENZV"}
  /\ Len(airport.runways) # 1

\* C8: the walk raises the unsupported-configuration fatal condition for an
\* airport exactly when it is neither ENGM nor ENZV and does not have one
\* runway pair, with or without an observation; it is a fatal condition of
\* its own kind and no selection is recorded for that airport.
C8_UnsupportedConfigurationIsFatal ==
  AfterMetarWalk =>
    \A i \in DOMAIN airports :
      /\ Completed(i) => ~Unsupported(airports[i])
      /\ PanickedAt(i) =>
           /\ Unwrap(fatal).panic = "unsupported_configuration"
                <=> Unsupported(airports[i])
           /\ Unsupported(airports[i]) =>
                "Metar" \notin DOMAIN airports[i].runways_in_use
      /\ (Entered(i) /\ Unsupported(airports[i])) =>
           /\ PanickedAt(i)
           /\ Unwrap(fatal).panic = "unsupported_configuration"

\* the walk stopped at a two-pair airport that has an observation attached
C8_Witness ==
  /\ pc = "panicked"
  /\ Unwrap(fatal).panic = "unsupported_configuration"
  /\ Unsupported(airports[FatalIndex])
  /\ IsSome(airports[FatalIndex].metar)
  /\ FatalIndex > 1

\* ENGM went through the loop body and its selection was recorded
EngmRecorded ==
  /\ AfterMetarWalk
  /\ IsSome(now)
  /\ \E i \in DOMAIN airports : airports[i].icao = "ENGM" /\ Completed(i)

\* the map set_runway_for_engm returned, under the source it returned
EngmSelection ==
  LET in_use == AirportAt("ENGM").runways_in_use
  IN IF "Metar" \in DOMAIN in_use THEN in_use["Metar"] ELSE in_use["Default"]

IsSingle(map) ==
  /\ Len(map) = 1
  /\ map[1] \in {<<Id3("0", "1", "L"), "Both">>, <<Id3("1", "9", "R"), "Both">>}

IsSegregated(map) ==
  /\ Len(map) = 2
  /\ map[1][1][3] = "L" /\ map[1][2] = "Departing"
  /\ map[2][1][3] = "R" /\ map[2][2] = "Arriving"

IsMixed(map) ==
  /\ Len(map) = 2
  /\ map[1][1][3] = "L" /\ map[1][2] = "Both"
  /\ map[2][1][3] = "R" /\ map[2][2] = "Both"

\* C9 as stated: at a local time t >= 22:30 or t < 06:30 ENGM's selection is
\* the Single mode one, whatever the weather flags are.
C9_SingleModeThroughTheNight ==
  (/\ EngmRecorded
   /\ (Unwrap(now) >= LateEvening \/ Unwrap(now) < EarlyMorning))
  => IsSingle(EngmSelection)

\* the six weather-minima flags of set_runway_for_engm
WeatherMinimaFlag(airport) ==
  \/ ceiling_for_lvp(airport)
  \/ rvr_reported(airport)
  \/ visibility_below_5000(airport)
  \/ reported_vv(airport)
  \/ forced_deice_condition(airport)
  \/ possible_deice_conditions(airport)

\* C10: at a local time in [06:30, 22:30) ENGM's selection is the Segregated
\* one if at least one weather-minima flag is true and the Mixed one if none
\* is; no panic is raised for ENGM at these times.
C10_DaytimeModeFollowsWeather ==
  (/\ AfterMetarWalk
   /\ IsSome(now)
   /\ Unwrap(now) >= EarlyMorning
   /\ Unwrap(now) < LateEvening)
  => /\ EngmRecorded
     /\ WeatherMinimaFlag(AirportAt("ENGM")) => IsSegregated(EngmSelection)
     /\ ~WeatherMinimaFlag(AirportAt("ENGM")) => IsMixed(EngmSelection)

\* at 06:30 sharp: Segregated on the strength of a reported RVR alone
C10_Witness ==
  /\ EngmRecorded
  /\ Unwrap(now) = EarlyMorning
  /\ rvr_reported(AirportAt("ENGM"))
  /\ ~ceiling_for_lvp(AirportAt("ENGM"))
  /\ ~visibility_below_5000(AirportAt("ENGM"))
  /\ IsSegregated(EngmSelection)

Next ==
  \/ Load
  \/ AddMetars
  \/ ReadAtis
  \/ RunwayInUseBasedOnMetar
  \/ ApplyDefaultRunways
  \/ Sort
  \/ Write
  \/ Report

Spec == Init /\ [][Next]_vars

\* ------------------------------------------------------------------------
\* The projections and policies of airport.rs called on their own, on one
\* airport with one observation: the inputs come from bounded sets.
\* ------------------------------------------------------------------------
\* cloud layers of one observation: at most MaxLayers
MaxLayers == 2

\* wind directions and arc bounds in degrees: the headings of the runways
\* of ENHV and ENZV, their perpendiculars, and directions between them
ProbeAngles ==
  {0, 18, 80, 88, 108, 170, 178, 198, 260, 268, 270, 288, 350, 358, 360}

ProbeSpeeds == {None, Some(0), Some(12), Some(30)}

ProbeDirections ==
  {Heading(d) : d \in ProbeAngles} \cup {HeadingUndefined, VariableDir}

\* dddssKT, and dddssKT dddVddd with both bounds or only the second defined
ProbeWinds ==
  {Wind(dir, speed, None) : dir \in ProbeDirections, speed \in ProbeSpeeds}
  \cup {Wind(Heading(start), speed, Some(<<Some(start), Some(end)>>)) :
          start \in ProbeAngles, end \in ProbeAngles, speed \in ProbeSpeeds}
  \cup {Wind(Heading(end), speed, Some(<<None, Some(end)>>)) :
          end \in {80, 178}, speed \in ProbeSpeeds}

ProbeHeights == {None, Some(4), Some(5), Some(14), Some(15)}

ProbeCoverages ==
  {None, Some("Few"), Some("Scattered"), Some("Broken"), Some("Overcast")}

ProbeLayers ==
  {[kind |-> "NSC"], [kind |-> "NCD"]}
  \cup {CloudData(coverage, height) :
          coverage \in ProbeCoverages, height \in ProbeHeights}

ProbeObscurations ==
  {Cavok}
  \cup {Described(Meters(Some(9999)), <<>>, clouds, None, <<>>) :
          clouds \in SeqsUpTo(ProbeLayers, MaxLayers)}

ProbeAirport(icao, wind, obscuration) ==
  [NewAirport(icao) EXCEPT
     !.metar = Some(Metar(icao, wind, obscuration, Some(8)))]

\* usage maps of one source: empty, one runway in each usage, two runways
ProbeSelections ==
  { <<>>,
    << <<Id("0", "8"), "Departing">> >>,
    << <<Id("0", "8"), "Arriving">> >>,
    << <<Id("2", "6"), "Both">> >>,
    << <<Id("0", "8"), "Departing">>, <<Id("2", "6"), "Arriving">> >>,
    << <<Id("2", "6"), "Both">>, <<Id("0", "8"), "Arriving">> >> }

\* runways_in_use: a map for each source of some set of sources
ProbeInUse ==
  UNION {[sources -> ProbeSelections] : sources \in SUBSET RunwayInUseSource}

\* ENHV with its runway pair and ENHV with an empty runway list, holding
\* selections
ProbeSelectedAirports ==
  {[NewAirport("ENHV") EXCEPT !.runways = runways, !.runways_in_use = in_use] :
     runways \in {Geometry["ENHV"], <<>>}, in_use \in ProbeInUse}

ProbeAirports ==
  {ProbeAirport(icao, wind, Cavok) :
     icao \in {"ENHV", "ENZV"}, wind \in ProbeWinds}
  \cup {ProbeAirport("ENGM", Wind(Heading(20), Some(6), None), obscuration) :
          obscuration \in ProbeObscurations}
  \cup {NewAirport(icao) : icao \in {"ENHV", "ENZV", "ENGM"}}
  \cup ProbeSelectedAirports

ProbeInit ==
  /\ pc = "probe"
  /\ config = [ignore_airports |-> {}, default_runways |-> <<>>]
  /\ airports = <<>>
  /\ now = None
  /\ fatal = None
  /\ rwy_file = <<>>
  /\ report = <<>>
  /\ merged = {}
  /\ feed = None
  /\ probe \in {Some([op |-> "input", airport |-> a, out |-> None]) :
                  a \in ProbeAirports}

\* the projection for every direction of every runway pair of the airport
all_max_headwinds(airport) ==
  [p \in DOMAIN airport.runways |->
     [d \in DOMAIN airport.runways[p] |->
        runway_max_headwind(airport, airport.runways[p][d])]]

all_max_tailwinds(airport) ==
  [p \in DOMAIN airport.runways |->
     [d \in DOMAIN airport.runways[p] |->
        runway_max_tailwind(airport, airport.runways[p][d])]]

all_max_crosswinds(airport) ==
  [p \in DOMAIN airport.runways |->
     [d \in DOMAIN airport.runways[p] |->
        runway_max_crosswind(airport, airport.runways[p][d])]]

Probed(op, out) ==
  /\ pc = "probe"
  /\ IsSome(probe)
  /\ Unwrap(probe).op = "input"
  /\ probe' = Some([Unwrap(probe) EXCEPT !.op = op, !.out = out])
  /\ UNCHANGED
       <<pc, config, airports, now, fatal, rwy_file, report, merged, feed>>

ProbeHeadwind ==
  Probed("runway_max_headwind",
         all_max_headwinds(Unwrap(probe).airport))

ProbeTailwind ==
  Probed("runway_max_tailwind",
         all_max_tailwinds(Unwrap(probe).airport))

ProbeCrosswind ==
  Probed("runway_max_crosswind",
         all_max_crosswinds(Unwrap(probe).airport))

ProbeEnzv ==
  /\ IsSome(probe)
  /\ Unwrap(probe).airport.icao = "ENZV"
  /\ Probed("set_runway_for_enzv", set_runway_for_enzv(Unwrap(probe).airport))

ProbeCeiling ==
  /\ IsSome(probe)
  /\ Unwrap(probe).airport.icao = "ENGM"
  /\ Probed("ceiling_for_lvp", ceiling_for_lvp(Unwrap(probe).airport))

\* .rwy files the writer finds: those of the pipeline, files with an
\* ACTIVE_AIRPORT line after an ACTIVE_RUNWAY line, and a file that starts
\* with an empty line
ProbeRwyFiles ==
  RwyFiles
  \cup { <<ActiveAirportLine("ENGM", 1),
          ActiveRunwayLine("ENHV", Id("0", "8"), 1),
          ActiveAirportLine("ENHV", 0)>>,
         <<ActiveRunwayLine("ENHV", Id("2", "6"), 0),
          ActiveAirportLine("ENHV", 1)>>,
         <<EmptyLine, ActiveRunwayLine("ENHV", Id("0", "8"), 1)>> }

\* write_runways_to_euroscope_rwy_file for a collection of one airport, with
\* the file it found
ProbeWrite ==
  /\ pc = "probe"
  /\ IsSome(probe)
  /\ Unwrap(probe).op = "input"
  /\ Unwrap(probe).airport \in ProbeSelectedAirports
  /\ \E file \in ProbeRwyFiles :
       probe' = Some([op |-> "write_runway_file",
                      airport |-> Unwrap(probe).airport,
                      file |-> file,
                      out |-> write_runway_file(<<Unwrap(probe).airport>>,
                                                read_active_airport(file))])
  /\ UNCHANGED
       <<pc, config, airports, now, fatal, rwy_file, report, merged, feed>>

ProbeNext ==
  \/ ProbeWrite
  \/ ProbeHeadwind
  \/ ProbeTailwind
  \/ ProbeCrosswind
  \/ ProbeEnzv
  \/ ProbeCeiling

PolicySpec == ProbeInit /\ [][ProbeNext]_vars

\* ------------------------------------------------------------------------
\* Properties of the policies and projections called on their own
\* ------------------------------------------------------------------------
ProbeOp == IF IsSome(probe) THEN Unwrap(probe).op ELSE "none"

ProbeOut == Unwrap(probe).out

ProbedAirport == Unwrap(probe).airport

\* the cloud layers of the probed observation
ProbedClouds ==
  IF IsSome(ProbedAirport.metar)
     /\ Unwrap(ProbedAirport.metar).obscuration.kind = "Described"
  THEN Unwrap(ProbedAirport.metar).obscuration.clouds
  ELSE <<>>

\* a layer of Broken, Overcast or undefined coverage whose height is
\* undefined or below the limit (hundreds of feet)
CeilingLayerBelow(cloud, limit) ==
  /\ cloud.kind = "CloudData"
  /\ cloud.coverage \in {None, Some("Broken"), Some("Overcast")}
  /\ (cloud.height = None \/ Unwrap(cloud.height) < limit)

\* C11 as stated: the low-ceiling flag is true iff some layer of Broken,
\* Overcast or undefined coverage has a height below 500 ft or undefined.
C11_LowCeilingBelow500Feet ==
  ProbeOp = "ceiling_for_lvp" =>
    (ProbeOut <=> \E i \in DOMAIN ProbedClouds :
                    CeilingLayerBelow(ProbedClouds[i], 5))

\* C11 amended: the low-ceiling flag is true iff some layer of Broken,
\* Overcast or undefined coverage has a height below 1500 ft or undefined;
\* Few and Scattered layers, NCD and NSC never set it.
C11_LowCeilingBelow1500Feet ==
  ProbeOp = "ceiling_for_lvp" =>
    /\ ProbeOut <=> \E i \in DOMAIN ProbedClouds :
                      CeilingLayerBelow(ProbedClouds[i], 15)
    /\ (\A i \in DOMAIN ProbedClouds :
          \/ ProbedClouds[i].kind # "CloudData"
          \/ ProbedClouds[i].coverage \in {Some("Few"), Some("Scattered")})
       => ~ProbeOut

\* the flag raised by a Broken layer at 1400 ft over a Few layer at 400 ft
C11_Witness ==
  /\ ProbeOp = "ceiling_for_lvp"
  /\ ProbedClouds = <<CloudData(Some("Few"), Some(4)),
                      CloudData(Some("Broken"), Some(14))>>
  /\ ProbeOut

\* ------------------------------------------------------------------------
\* Properties of ENGM's selection in a run of the pipeline
\* ------------------------------------------------------------------------
\* set_runway_for_engm was called in the walk
EngmEntered == AfterMetarWalk /\ IsSome(now)

EngmPanicked ==
  pc = "panicked" /\ Unwrap(fatal).icao = "ENGM"

\* the number and the mode set_runway_for_engm works with
EngmNumber ==
  engm_runway_direction(
    internal_set_runway_based_on_metar_wind(AirportAt("ENGM"), 0),
    ConfigDefault(config, "ENGM"))

EngmMode == engm_mode(Unwrap(now), WeatherMinimaFlag(AirportAt("ENGM")))

\* C12: with number n the assignment is exactly {nL: Both, nR: Both} in
\* Mixed mode, {nL: Departing, nR: Arriving} in Segregated mode, and in
\* Single mode {01L: Both} for 01 and {19R: Both} for 19; any other number
\* in Single mode is a fatal configuration error without an assignment.
C12_ModeToAssignment ==
  EngmEntered =>
    LET n == EngmNumber
        in_use == AirportAt("ENGM").runways_in_use
    IN /\ EngmMode = "Mixed" =>
            /\ ~EngmPanicked
            /\ EngmSelection = << <<n \o <<"L">>, "Both">>,
                                  <<n \o <<"R">>, "Both">> >>
       /\ EngmMode = "Segregated" =>
            /\ ~EngmPanicked
            /\ EngmSelection = << <<n \o <<"L">>, "Departing">>,
                                  <<n \o <<"R">>, "Arriving">> >>
       /\ (EngmMode = "Single" /\ n = Id("0", "1")) =>
            /\ ~EngmPanicked
            /\ EngmSelection = << <<Id3("0", "1", "L"), "Both">> >>
       /\ (EngmMode = "Single" /\ n = Id("1", "9")) =>
            /\ ~EngmPanicked
            /\ EngmSelection = << <<Id3("1", "9", "R"), "Both">> >>
       /\ (EngmMode = "Single" /\ n \notin {Id("0", "1"), Id("1", "9")}) =>
            /\ EngmPanicked
            /\ Unwrap(fatal).panic = "engm_invalid_runway_direction"
            /\ "Metar" \notin DOMAIN in_use
            /\ "Default" \notin DOMAIN in_use

\* before 06:30 with number 19: the single runway is 19R
C12_Witness ==
  /\ EngmEntered
  /\ ~EngmPanicked
  /\ EngmMode = "Single"
  /\ EngmNumber = Id("1", "9")
  /\ EngmSelection = << <<Id3("1", "9", "R"), "Both">> >>

\* the runway numbers (first two characters) of the keys of a usage map
NumbersOf(map) == {SubSeq(map[i][1], 1, 2) : i \in DOMAIN map}

\* direction d of ENGM's first pair has the larger headwind, more than 2
\* above the other one
EngmWindPick(d) == StrictlyLarger(AirportAt("ENGM"), d, 3 - d)

\* C13: ENGM's number is the first two characters of the direction the
\* general policy picks on the first runway pair, and the result then goes
\* under source Metar; when the policy is undecided the number is the
\* configured default as two digits, or 01 without one, under Default.
C13_EngmNumberAndSource ==
  EngmEntered =>
    LET a == AirportAt("ENGM")
        in_use == a.runways_in_use
    IN /\ \A d \in 1..2 :
            EngmWindPick(d) =>
              /\ ~EngmPanicked
              /\ "Metar" \in DOMAIN in_use
              /\ "Default" \notin DOMAIN in_use
              /\ NumbersOf(in_use["Metar"])
                   = {SubSeq(a.runways[1][d].identifier, 1, 2)}
       /\ (~EngmWindPick(1) /\ ~EngmWindPick(2) /\ ~EngmPanicked) =>
            /\ "Metar" \notin DOMAIN in_use
            /\ "Default" \in DOMAIN in_use
            /\ NumbersOf(in_use["Default"])
                 = {IF "ENGM" \in DOMAIN config.default_runways
                    THEN Format02(config.default_runways["ENGM"])
                    ELSE Id("0", "1")}

\* no wind pick from VRB03KT, default 19 configured: 19 under Default
C13_Witness ==
  /\ EngmEntered
  /\ ~EngmPanicked
  /\ IsSome(AirportAt("ENGM").metar)
  /\ ~EngmWindPick(1) /\ ~EngmWindPick(2)
  /\ "ENGM" \in DOMAIN config.default_runways
  /\ NumbersOf(AirportAt("ENGM").runways_in_use["Default"]) = {Id("1", "9")}

\* ------------------------------------------------------------------------
\* Properties of set_runway_for_enzv called on its own
\* ------------------------------------------------------------------------
\* index (from 0) of the pair with direction 18
EnzvMainIndex == Unwrap(enzv_main_runway_index(ProbedAirport))

\* the direction with the larger headwind, more than 2 above the other, on
\* the pair of the index; None when there is none
PairPick(airport, index) ==
  LET dirs == airport.runways[index + 1]
      headwind(d) == runway_max_headwind(airport, dirs[d])
      wins(d) == /\ IsSome(headwind(d)) /\ IsSome(headwind(3 - d))
                 /\ Unwrap(headwind(d)) - Unwrap(headwind(3 - d)) > 2
  IN IF wins(1) THEN Some(dirs[1].identifier)
     ELSE IF wins(2) THEN Some(dirs[2].identifier)
     ELSE None

\* the main runway: the pick on the main pair, or the literal 18
EnzvMainRunway ==
  IF IsSome(PairPick(ProbedAirport, EnzvMainIndex))
  THEN Unwrap(PairPick(ProbedAirport, EnzvMainIndex))
  ELSE Id("1", "8")

\* Option<(i32, CrosswindDirection)> of the main runway
EnzvMainCrosswind ==
  runway_max_crosswind(
    ProbedAirport,
    direction_named(ProbedAirport.runways[EnzvMainIndex + 1], EnzvMainRunway))

EnzvCrosswindAtLeast15 ==
  /\ ProbeOp = "set_runway_for_enzv"
  /\ IsSome(EnzvMainCrosswind)
  /\ Unwrap(EnzvMainCrosswind)[1] >= 15

\* C14 as stated: with a main crosswind of 15 or more the alternate pair
\* that set_runway_for_enzv evaluates is the other pair: its index is the
\* main index with the low bit flipped.
C14_AlternatePairIsTheOtherPair ==
  EnzvCrosswindAtLeast15 =>
    /\ secondary_index_of(EnzvMainIndex) # EnzvMainIndex
    /\ secondary_index_of(EnzvMainIndex) = 1 - EnzvMainIndex

\* the pair other than the main pair, its pick and the crosswind of the pick
EnzvOtherIndex == 1 - EnzvMainIndex

EnzvOtherPick == PairPick(ProbedAirport, EnzvOtherIndex)

EnzvOtherCrosswind ==
  runway_max_crosswind(
    ProbedAirport,
    direction_named(ProbedAirport.runways[EnzvOtherIndex + 1],
                    Unwrap(EnzvOtherPick)))

\* C15 as stated: with a main crosswind of 15 or more the result is
\* {alternate pair's pick: Both} if the alternate pair has a pick and its
\* crosswind is strictly lower than the main runway's, else {main: Both}.
C15_SwitchToAlternatePair ==
  EnzvCrosswindAtLeast15 =>
    IF /\ IsSome(EnzvOtherPick)
       /\ Unwrap(EnzvOtherCrosswind)[1] < Unwrap(EnzvMainCrosswind)[1]
    THEN ProbeOut = Ok(<< <<Unwrap(EnzvOtherPick), "Both">> >>)
    ELSE ProbeOut = Ok(<< <<EnzvMainRunway, "Both">> >>)

\* C16: when the main runway's crosswind cannot be computed or is below 15
\* the result is exactly {m: Both}, m being the general policy's pick on
\* the pair containing 18, or the literal 18 when it is undecided.
C16_MainRunwayKept ==
  (/\ ProbeOp = "set_runway_for_enzv"
   /\ (~IsSome(EnzvMainCrosswind) \/ Unwrap(EnzvMainCrosswind)[1] < 15))
  => ProbeOut = Ok(<< <<EnzvMainRunway, "Both">> >>)

\* 36 is picked on the main pair and kept with a crosswind below 15
C16_Witness ==
  /\ ProbeOp = "set_runway_for_enzv"
  /\ IsSome(EnzvMainCrosswind)
  /\ Unwrap(EnzvMainCrosswind)[1] < 15
  /\ Unwrap(EnzvMainCrosswind)[1] > 0
  /\ EnzvMainRunway = Id("3", "6")
  /\ ProbeOut = Ok(<< <<Id("3", "6"), "Both">> >>)

\* the wind of the probed observation and the bounds of its arc
ProbedWind == Unwrap(ProbedAirport.metar).wind

ProbedArc ==
  /\ IsSome(probe)
  /\ IsSome(ProbedAirport.metar)
  /\ HasVarying(ProbedWind)

ArcStart == Unwrap(Unwrap(ProbedWind.varying)[1])

ArcEnd == Unwrap(Unwrap(ProbedWind.varying)[2])

\* a lies on the arc swept clockwise from start to end, both included
InsideArc(start, end, a) ==
  (a - start) % 360 <= (end - start) % 360

ProbedPairs == DOMAIN ProbedAirport.runways

ProbedHeading(p, d) == ProbedAirport.runways[p][d].degrees

\* C17: for an arc (start, end) and a resolvable speed s, a runway heading
\* inside the arc, endpoints included, arcs through north (start > end)
\* included, has runway_max_headwind = s.
C17_HeadingInsideArcFullSpeed ==
  (/\ ProbeOp = "runway_max_headwind"
   /\ ProbedArc
   /\ IsSome(ProbedWind.speed))
  => \A p \in ProbedPairs : \A d \in DOMAIN ProbedAirport.runways[p] :
       InsideArc(ArcStart, ArcEnd, ProbedHeading(p, d))
         => ProbeOut[p][d] = ProbedWind.speed

\* 350V018 at 12 knots: heading 358 of ENZV is inside the arc through north
C17_Witness ==
  /\ ProbeOp = "runway_max_headwind"
  /\ ProbedArc
  /\ ProbedAirport.icao = "ENZV"
  /\ ArcStart = 350
  /\ ArcEnd = 18
  /\ ProbedWind.speed = Some(12)
  /\ \E p \in ProbedPairs : \E d \in DOMAIN ProbedAirport.runways[p] :
       /\ ProbedHeading(p, d) = 358
       /\ ProbeOut[p][d] = Some(12)

ProbedReciprocal(p, d) == (ProbedHeading(p, d) + 180) % 360

\* the arc holds the reciprocal of the heading and not the heading itself
OnlyReciprocalInsideArc(p, d) ==
  /\ InsideArc(ArcStart, ArcEnd, ProbedReciprocal(p, d))
  /\ ~InsideArc(ArcStart, ArcEnd, ProbedHeading(p, d))

\* the larger of the projections of the two arc bounds on the heading
EndpointHeadwind(p, d) ==
  CeilDiv(Unwrap(ProbedWind.speed)
            * Max2(CosTable[diff_angle(ProbedHeading(p, d),
                                       ArcStart % 360) + 1],
                   CosTable[diff_angle(ProbedHeading(p, d),
                                       ArcEnd % 360) + 1]),
          Scale)

ProbedFixedDirection ==
  /\ IsSome(probe)
  /\ IsSome(ProbedAirport.metar)
  /\ ~HasVarying(ProbedWind)
  /\ ProbedWind.dir.kind = "Heading"
  /\ IsSome(ProbedWind.dir.track)

\* degrees by which the wind direction is rotated clockwise from the heading
ClockwiseFromHeading(p, d) ==
  (Unwrap(ProbedWind.dir.track) - ProbedHeading(p, d)) % 360

NonCalmCrosswind(p, d) ==
  /\ IsSome(ProbeOut[p][d])
  /\ Unwrap(ProbeOut[p][d])[1] > 0

CrosswindSide(p, d) == Unwrap(ProbeOut[p][d])[2]

OtherSide(side) ==
  IF side = "Right" THEN "Left"
  ELSE IF side = "Left" THEN "Right"
  ELSE side

\* C19: for a fixed-direction wind with a crosswind above 0 the side is
\* Right when the wind is 1..179 degrees clockwise from the heading and
\* Left when it is 1..179 degrees counter-clockwise; the two ends of a
\* runway, 180 degrees apart, report exchanged sides for the same wind.
C19_CrosswindSide ==
  (/\ ProbeOp = "runway_max_crosswind"
   /\ ProbedFixedDirection)
  => \A p \in ProbedPairs : \A d \in DOMAIN ProbedAirport.runways[p] :
       NonCalmCrosswind(p, d) =>
         /\ ClockwiseFromHeading(p, d) \in 1..179
              => CrosswindSide(p, d) = "Right"
         /\ ClockwiseFromHeading(p, d) \in 181..359
              => CrosswindSide(p, d) = "Left"
         /\ \A e \in DOMAIN ProbedAirport.runways[p] :
              (/\ ProbedHeading(p, e) = ProbedReciprocal(p, d)
               /\ NonCalmCrosswind(p, e))
              => CrosswindSide(p, e) = OtherSide(CrosswindSide(p, d))

\* 17012KT at ENHV: from the right of 08 and from the left of 26
C19_Witness ==
  /\ ProbeOp = "runway_max_crosswind"
  /\ ProbedFixedDirection
  /\ ProbedAirport.icao = "ENHV"
  /\ ProbedWind.dir.track = Some(170)
  /\ ProbedWind.speed = Some(12)
  /\ \E p \in ProbedPairs : \E d, e \in DOMAIN ProbedAirport.runways[p] :
       /\ ProbedHeading(p, d) = 80
       /\ ProbedHeading(p, e) = 260
       /\ ProbeOut[p][d] = Some(<<12, "Right">>)
       /\ ProbeOut[p][e] = Some(<<12, "Left">>)

ProbedRightPerpendicular(p, d) == (ProbedHeading(p, d) + 90) % 360

ProbedLeftPerpendicular(p, d) == (ProbedHeading(p, d) + 270) % 360

RightInsideArc(p, d) ==
  InsideArc(ArcStart, ArcEnd, ProbedRightPerpendicular(p, d))

LeftInsideArc(p, d) ==
  InsideArc(ArcStart, ArcEnd, ProbedLeftPerpendicular(p, d))

\* C20: for an arc and a resolvable speed s, when track+90 or track-90 is
\* inside the arc runway_max_crosswind has magnitude s, with side Variable
\* exactly when both are inside, Right when only track+90 is inside and
\* Left when only track-90 is inside.
C20_PerpendicularInsideArc ==
  (/\ ProbeOp = "runway_max_crosswind"
   /\ ProbedArc
   /\ IsSome(ProbedWind.speed))
  => \A p \in ProbedPairs : \A d \in DOMAIN ProbedAirport.runways[p] :
       (RightInsideArc(p, d) \/ LeftInsideArc(p, d)) =>
         /\ IsSome(ProbeOut[p][d])
         /\ Unwrap(ProbeOut[p][d])[1] = Unwrap(ProbedWind.speed)
         /\ CrosswindSide(p, d) = "Variable"
              <=> (RightInsideArc(p, d) /\ LeftInsideArc(p, d))
         /\ (RightInsideArc(p, d) /\ ~LeftInsideArc(p, d))
              => CrosswindSide(p, d) = "Right"
         /\ (LeftInsideArc(p, d) /\ ~RightInsideArc(p, d))
              => CrosswindSide(p, d) = "Left"

\* 108V358 at 12 knots holds 170 and 350, both perpendiculars of 08 at
\* ENHV: Variable 12
C20_Witness ==
  /\ ProbeOp = "runway_max_crosswind"
  /\ ProbedArc
  /\ ProbedAirport.icao = "ENHV"
  /\ ArcStart = 108
  /\ ArcEnd = 358
  /\ ProbedWind.speed = Some(12)
  /\ \E p \in ProbedPairs : \E d \in DOMAIN ProbedAirport.runways[p] :
       /\ ProbedHeading(p, d) = 80
       /\ RightInsideArc(p, d)
       /\ LeftInsideArc(p, d)
       /\ ProbeOut[p][d] = Some(<<12, "Variable">>)

\* no observation, or an observation whose wind speed is undefined
NoResolvableSpeed ==
  /\ IsSome(probe)
  /\ \/ ~IsSome(ProbedAirport.metar)
     \/ ~IsSome(ProbedWind.speed)

\* C21: without an observation or without a resolvable wind speed
\* runway_max_headwind and runway_max_crosswind are None for every runway
\* direction, whatever the direction or arc of the wind.
C21_NoSpeedNoResult ==
  (/\ ProbeOp \in {"runway_max_headwind", "runway_max_crosswind"}
   /\ NoResolvableSpeed)
  => \A p \in ProbedPairs : \A d \in DOMAIN ProbedAirport.runways[p] :
       ProbeOut[p][d] = None

\* 350V018 with an undefined speed at ENZV: no crosswind for any direction
C21_Witness ==
  /\ ProbeOp = "runway_max_crosswind"
  /\ ProbedArc
  /\ ProbedAirport.icao = "ENZV"
  /\ ArcStart = 350
  /\ ArcEnd = 18
  /\ ProbedWind.speed = None
  /\ \A p \in ProbedPairs : \A d \in DOMAIN ProbedAirport.runways[p] :
       ProbeOut[p][d] = None

\* the ACTIVE_RUNWAY lines of the file the probe wrote
WrittenRunwayLines ==
  LET IsRunwayLine(line) == line.kind = "ACTIVE_RUNWAY"
  IN SelectSeq(ProbeOut, IsRunwayLine)

\* the flags of a usage: 1 for Departing, 0 for Arriving, both for Both
FlagsOf(usage) ==
  IF usage = "Departing" THEN {1}
  ELSE IF usage = "Arriving" THEN {0}
  ELSE {1, 0}

\* the entries <<source, position>> of the selections of the airport
SelectionEntries(airport) ==
  UNION {{<<source, i>> : i \in DOMAIN airport.runways_in_use[source]} :
           source \in DOMAIN airport.runways_in_use}

EntryOf(airport, e) == airport.runways_in_use[e[1]][e[2]]

LinePositions(line) ==
  {k \in DOMAIN WrittenRunwayLines : WrittenRunwayLines[k] = line}

\* C22: every entry (runway, usage) of a written selection of an airport
\* gives ACTIVE_RUNWAY:<ICAO>:<runway>:<flag> lines: one with flag 1 for
\* Departing, one with flag 0 for Arriving, two for Both with flag 1 right
\* before flag 0; no other ACTIVE_RUNWAY line is written, and an airport
\* with an empty runway list gets no line.
C22_RunwayLinesOfSelections ==
  ProbeOp = "write_runway_file" =>
    LET a == ProbedAirport
        lines == WrittenRunwayLines
    IN IF a.runways = <<>> THEN lines = <<>>
       ELSE /\ \A k \in DOMAIN lines :
                 /\ lines[k].icao = a.icao
                 /\ lines[k].flag \in {0, 1}
                 /\ \E e \in SelectionEntries(a) :
                      /\ EntryOf(a, e)[1] = lines[k].runway
                      /\ lines[k].flag \in FlagsOf(EntryOf(a, e)[2])
            /\ \A e \in SelectionEntries(a) : \A flag \in {0, 1} :
                 Cardinality(
                   LinePositions(
                     ActiveRunwayLine(a.icao, EntryOf(a, e)[1], flag)))
                 = Cardinality(
                     {o \in SelectionEntries(a) :
                        /\ EntryOf(a, o)[1] = EntryOf(a, e)[1]
                        /\ flag \in FlagsOf(EntryOf(a, o)[2])})
            /\ \A e \in SelectionEntries(a) :
                 EntryOf(a, e)[2] = "Both" =>
                   \E k \in DOMAIN lines :
                     /\ k + 1 \in DOMAIN lines
                     /\ lines[k]
                          = ActiveRunwayLine(a.icao, EntryOf(a, e)[1], 1)
                     /\ lines[k + 1]
                          = ActiveRunwayLine(a.icao, EntryOf(a, e)[1], 0)

\* one source with {26: Both, 08: Arriving}: three lines, 26 with flag 1,
\* 26 with flag 0, 08 with flag 0
C22_Witness ==
  /\ ProbeOp = "write_runway_file"
  /\ ProbedAirport.runways # <<>>
  /\ DOMAIN ProbedAirport.runways_in_use = {"Atis"}
  /\ ProbedAirport.runways_in_use["Atis"]
       = << <<Id("2", "6"), "Both">>, <<Id("0", "8"), "Arriving">> >>
  /\ WrittenRunwayLines
       = <<ActiveRunwayLine("ENHV", Id("2", "6"), 1),
           ActiveRunwayLine("ENHV", Id("2", "6"), 0),
           ActiveRunwayLine("ENHV", Id("0", "8"), 0)>>

\* ------------------------------------------------------------------------
\* metar_decoder: the report grammar.  A report line is a sequence of
\* characters; a parser maps the input to Ok((rest, value)) or to an error.
\* ------------------------------------------------------------------------
\* nom IResult
POk(rest, value) == [ok |-> TRUE, rest |-> rest, value |-> value]

PErr == [ok |-> FALSE]

StartsWith(input, t) ==
  Len(input) >= Len(t) /\ SubSeq(input, 1, Len(t)) = t

Drop(input, n) == SubSeq(input, n + 1, Len(input))

\* the value v under the name K gives it: every intermediate result of a
\* parser is named once
With(v, K(_)) == K(v)

\* two parsers in sequence: K goes on from the result r of the first
Then(r, K(_)) == IF r.ok THEN K(r) ELSE PErr

\* tag(t) and char(c)
tag(t, input) ==
  IF StartsWith(input, t) THEN POk(Drop(input, Len(t)), t) ELSE PErr

\* opt(parser) on the result r that parser gave for input
opt(r, input) ==
  IF r.ok THEN POk(r.rest, Some(r.value)) ELSE POk(input, None)

\* value of the first alternative of alt((..)) that succeeds
RECURSIVE alt_tags(_, _)
alt_tags(choices, input) ==
  IF choices = <<>> THEN PErr
  ELSE IF StartsWith(input, Head(choices)[1])
  THEN POk(Drop(input, Len(Head(choices)[1])), Head(choices)[2])
  ELSE alt_tags(Tail(choices), input)

\* space0: the input after its leading blanks
RECURSIVE space0(_)
space0(input) ==
  IF input # <<>> /\ Head(input) \in {" ", "\t"}
  THEN space0(Tail(input))
  ELSE input

\* preceded(tag(t), parser)
preceded(t, parser(_), input) ==
  IF StartsWith(input, t) THEN parser(Drop(input, Len(t))) ELSE PErr

\* preceded(opt(char(' ')), ..): the input the second parser sees
after_opt_space(input) ==
  IF StartsWith(input, <<" ">>) THEN Drop(input, 1) ELSE input

IsDigit(c) == \E i \in DOMAIN Digit : Digit[i] = c

DigitValue(c) == (CHOOSE i \in DOMAIN Digit : Digit[i] = c) - 1

Letters ==
  {"A", "B", "C", "D", "E", "F", "G", "H", "I", "J", "K", "L", "M", "N",
   "O", "P", "Q", "R", "S", "T", "U", "V", "W", "X", "Y", "Z"}

IsAlphanumeric(c) == IsDigit(c) \/ c \in Letters

RECURSIVE digit_count(_)
digit_count(input) ==
  IF input # <<>> /\ IsDigit(Head(input))
  THEN 1 + digit_count(Tail(input))
  ELSE 0

RECURSIVE alphanumeric_count(_)
alphanumeric_count(input) ==
  IF input # <<>> /\ IsAlphanumeric(Head(input))
  THEN 1 + alphanumeric_count(Tail(input))
  ELSE 0

RECURSIVE digits_value(_)
digits_value(digits) ==
  IF digits = <<>> THEN 0
  ELSE digits_value(SubSeq(digits, 1, Len(digits) - 1)) * 10
       + DigitValue(digits[Len(digits)])

\* character::complete::u32: one or more digits.  Runs of more than nine
\* digits, where the overflow check of the code starts to matter, are
\* outside the lines of the model and taken as the overflow error.
u32(input) ==
  With(digit_count(input), LAMBDA n :
    IF n = 0 \/ n > 9 THEN PErr
    ELSE POk(Drop(input, n), digits_value(SubSeq(input, 1, n))))

\* character::complete::i32: an optional sign and digits
i32(input) ==
  With(StartsWith(input, <<"-">>), LAMBDA negative :
    Then(u32(IF negative \/ StartsWith(input, <<"+">>)
             THEN Drop(input, 1) ELSE input),
         LAMBDA magnitude :
           POk(magnitude.rest,
               IF negative THEN 0 - magnitude.value ELSE magnitude.value)))

\* alphanumeric1
alphanumeric1(input) ==
  With(alphanumeric_count(input), LAMBDA n :
    IF n = 0 THEN PErr ELSE POk(Drop(input, n), SubSeq(input, 1, n)))

\* map_parser(take(n), all_consuming(u32)): n characters, all digits
digits_of_width(n, input) ==
  IF Len(input) >= n /\ digit_count(SubSeq(input, 1, n)) = n
  THEN POk(Drop(input, n), digits_value(SubSeq(input, 1, n)))
  ELSE PErr

Slashes(n) == [i \in 1..n |-> "/"]

\* OptionalData::<T, N>::optional_field(parser) on the result r that parser
\* gave for input: N slashes are the undefined value
optional_field(n, r, input) ==
  IF StartsWith(input, Slashes(n)) THEN POk(Drop(input, n), None)
  ELSE IF r.ok THEN POk(r.rest, Some(r.value))
  ELSE PErr

\* optional_field(map_parser(take(n), all_consuming(u32)))
optional_digits(n, input) ==
  optional_field(n, digits_of_width(n, input), input)

\* ------------------------------------------------------------------------
\* metar_decoder: units and wind
\* ------------------------------------------------------------------------
\* nom_metar_timestamp: ddhhmmZ
nom_metar_timestamp(input) ==
  Then(digits_of_width(6, input), LAMBDA stamp :
    IF StartsWith(stamp.rest, <<"Z">>)
    THEN POk(Drop(stamp.rest, 1),
             [day |-> stamp.value \div 10000,
              hour |-> (stamp.value \div 100) % 100,
              minute |-> stamp.value % 100])
    ELSE PErr)

\* the direction of the wind group: ddd, VRB or ///
nom_wind_direction(input) ==
  IF StartsWith(input, <<"V", "R", "B">>) THEN POk(Drop(input, 3), VariableDir)
  ELSE Then(optional_digits(3, input), LAMBDA track :
         POk(track.rest, [kind |-> "Heading", track |-> track.value]))

\* the speed of the wind group: two or three digits, or //
nom_wind_speed(input) ==
  IF StartsWith(input, Slashes(2)) THEN POk(Drop(input, 2), None)
  ELSE With(digit_count(input), LAMBDA n :
         IF n \in {2, 3}
         THEN POk(Drop(input, n), Some(digits_value(SubSeq(input, 1, n))))
         ELSE PErr)

\* the end of the arc: "Vddd"
nom_wind_varying_end(input) ==
  preceded(<<"V">>, LAMBDA i : optional_digits(3, i), input)

\* " dddVddd" after the wind group
nom_wind_varying(input) ==
  Then(preceded(<<" ">>, LAMBDA i : optional_digits(3, i), input),
       LAMBDA start :
         Then(nom_wind_varying_end(start.rest), LAMBDA end :
           POk(end.rest, <<start.value, end.value>>)))

\* nom_wind: direction, speed, optional gust, unit, optional arc
nom_wind(input) ==
  Then(nom_wind_direction(input), LAMBDA dir :
  Then(nom_wind_speed(dir.rest), LAMBDA speed :
  With(opt(preceded(<<"G">>, nom_wind_speed, speed.rest), speed.rest),
       LAMBDA gust :
  Then(alt_tags(<< << <<"K", "T">>, "KT">>,
                   << <<"M", "P", "S">>, "MPS">> >>, gust.rest),
       LAMBDA unit :
  With(opt(nom_wind_varying(unit.rest), unit.rest), LAMBDA varying :
    POk(varying.rest,
        [dir |-> dir.value, speed |-> speed.value, gust |-> gust.value,
         unit |-> unit.value, varying |-> varying.value]))))))

\* nom_cloud_height: hundreds of feet in three digits
nom_cloud_height(input) == optional_digits(3, input)

\* ------------------------------------------------------------------------
\* metar_decoder: obscuration.rs
\* ------------------------------------------------------------------------
nom_distance_modifier(input) ==
  alt_tags(<< << <<"M">>, "LessThan">>, << <<"P">>, "GreaterThan">> >>, input)

\* separated_pair(u32, tag("/"), u32)
nom_fraction(input) ==
  Then(u32(input), LAMBDA numerator :
    Then(preceded(<<"/">>, u32, numerator.rest), LAMBDA denominator :
      POk(denominator.rest, <<numerator.value, denominator.value>>)))

\* (opt(nom_distance_modifier), terminated(nom_fraction, tag("SM")))
fraction_only(input) ==
  With(opt(nom_distance_modifier(input), input), LAMBDA modifier :
    Then(nom_fraction(modifier.rest), LAMBDA fraction :
      Then(tag(<<"S", "M">>, fraction.rest), LAMBDA unit :
        POk(unit.rest,
            [whole |-> None, fraction |-> Some(fraction.value),
             modifier |-> modifier.value]))))

\* terminated((opt(nom_distance_modifier), u32,
\*             opt(preceded(tag(" "), nom_fraction))), tag("SM"))
whole(input) ==
  With(opt(nom_distance_modifier(input), input), LAMBDA modifier :
    Then(u32(modifier.rest), LAMBDA miles :
      With(opt(preceded(<<" ">>, nom_fraction, miles.rest), miles.rest),
           LAMBDA fraction :
             Then(tag(<<"S", "M">>, fraction.rest), LAMBDA unit :
               POk(unit.rest,
                   [whole |-> Some(miles.value), fraction |-> fraction.value,
                    modifier |-> modifier.value])))))

\* alt((fraction_only, whole))
nom_statute_miles_visibility(input) ==
  With(fraction_only(input), LAMBDA first :
    IF first.ok THEN first ELSE whole(input))

\* alt((statute miles, four digits of meters))
nom_visibility_unit(input) ==
  With(nom_statute_miles_visibility(input), LAMBDA miles :
    IF miles.ok
    THEN POk(miles.rest, [unit |-> "StatuteMiles", value |-> miles.value])
    ELSE Then(optional_digits(4, input), LAMBDA meters :
           POk(meters.rest, Meters(meters.value))))

nom_visibility(input) ==
  Then(nom_visibility_unit(input), LAMBDA value :
    With(opt(tag(<<"N", "D", "V">>, value.rest), value.rest), LAMBDA ndv :
      POk(ndv.rest, [value |-> value.value, ndv |-> IsSome(ndv.value)])))

IntensityTags ==
  << << <<"-">>, "Light">>, << <<"+">>, "Heavy">>,
     << <<"V", "C">>, "Vicinity">> >>

QualifierTags ==
  << << <<"M", "I">>, "Shallow">>, << <<"B", "C">>, "Patches">>,
     << <<"P", "R">>, "Partial">>, << <<"D", "R">>, "Low">>,
     << <<"B", "L">>, "Blowing">>, << <<"S", "H">>, "Showers">>,
     << <<"T", "S">>, "Thunderstorm">>, << <<"F", "Z">>, "Freezing">> >>

PhenomenonTags ==
  << << <<"D", "Z">>, "DZ">>, << <<"R", "A">>, "RA">>,
     << <<"S", "N">>, "SN">>, << <<"S", "G">>, "SG">>,
     << <<"P", "L">>, "PL">>, << <<"G", "R">>, "GR">>,
     << <<"G", "S">>, "GS">>, << <<"U", "P">>, "UP">>,
     << <<"B", "R">>, "BR">>, << <<"F", "G">>, "FG">>,
     << <<"F", "U">>, "FU">>, << <<"V", "A">>, "VA">>,
     << <<"D", "U">>, "DU">>, << <<"S", "A">>, "SA">>,
     << <<"H", "Z">>, "HZ">>, << <<"P", "O">>, "PO">>,
     << <<"S", "Q">>, "SQ">>, << <<"F", "C">>, "FC">>,
     << <<"S", "S">>, "SS">>, << <<"D", "S">>, "DS">> >>

\* many0(alt((phenomena)))
RECURSIVE many0_phenomena(_)
many0_phenomena(input) ==
  With(alt_tags(PhenomenonTags, input), LAMBDA first :
    IF first.ok
    THEN With(many0_phenomena(first.rest), LAMBDA more :
           POk(more.rest, <<first.value>> \o more.value))
    ELSE POk(input, <<>>))

nom_present_weather(input) ==
  With(opt(alt_tags(IntensityTags, input), input), LAMBDA intensity :
  With(opt(alt_tags(QualifierTags, intensity.rest), intensity.rest),
       LAMBDA descriptor :
  With(many0_phenomena(descriptor.rest), LAMBDA phenomena :
    IF ~IsSome(descriptor.value) /\ phenomena.value = <<>>
    THEN PErr
    ELSE POk(phenomena.rest,
             [intensity |-> intensity.value,
              descriptor |-> descriptor.value,
              phenomena |-> phenomena.value]))))

RvrTrendTags ==
  << << <<"D">>, "Decreasing">>, << <<"U">>, "Increasing">>,
     << <<"N">>, "NoDistinctChange">> >>

\* (opt(nom_distance_modifier), four digits, opt(trend)) of runway
nom_rvr_value(runway, input) ==
  With(opt(nom_distance_modifier(input), input), LAMBDA modifier :
    Then(optional_digits(4, modifier.rest), LAMBDA value :
      With(opt(alt_tags(RvrTrendTags, value.rest), value.rest),
           LAMBDA comment :
             POk(comment.rest,
                 [runway |-> runway, value |-> value.value,
                  distance_modifier |-> modifier.value,
                  comment |-> comment.value]))))

nom_rvr(input) ==
  Then(preceded(<<"R">>, alphanumeric1, input), LAMBDA runway :
    preceded(<<"/">>, LAMBDA i : nom_rvr_value(runway.value, i),
             runway.rest))

CoverageTags ==
  << << <<"F", "E", "W">>, "Few">>, << <<"S", "C", "T">>, "Scattered">>,
     << <<"B", "K", "N">>, "Broken">>, << <<"O", "V", "C">>, "Overcast">> >>

nom_cloud_coverage(input) ==
  optional_field(3, alt_tags(CoverageTags, input), input)

nom_cloud_type(input) ==
  optional_field(3, alphanumeric1(input), input)

nom_cloud_data(input) ==
  Then(nom_cloud_coverage(input), LAMBDA coverage :
    Then(nom_cloud_height(coverage.rest), LAMBDA height :
      With(opt(nom_cloud_type(height.rest), height.rest), LAMBDA cloud_type :
        POk(cloud_type.rest,
            [kind |-> "CloudData", coverage |-> coverage.value,
             height |-> height.value, cloud_type |-> cloud_type.value]))))

nom_cloud(input) ==
  IF StartsWith(input, <<"N", "C", "D">>)
  THEN POk(Drop(input, 3), [kind |-> "NCD"])
  ELSE IF StartsWith(input, <<"N", "S", "C">>)
  THEN POk(Drop(input, 3), [kind |-> "NSC"])
  ELSE nom_cloud_data(input)

\* the element parser of each list of nom_described_obscuration
obscuration_element(list, input) ==
  CASE list = "present_weather" -> nom_present_weather(input)
    [] list = "rvr" -> nom_rvr(input)
    [] list = "clouds" -> nom_cloud(input)

\* separated_list0(char(' '), element) after its first element: a blank
\* that no element follows is not consumed
RECURSIVE separated_list_more(_, _)
separated_list_more(list, input) ==
  With(preceded(<<" ">>, LAMBDA i : obscuration_element(list, i), input),
       LAMBDA next :
         IF next.ok
         THEN With(separated_list_more(list, next.rest), LAMBDA more :
                POk(more.rest, <<next.value>> \o more.value))
         ELSE POk(input, <<>>))

separated_list0(list, input) ==
  With(obscuration_element(list, input), LAMBDA first :
    IF first.ok
    THEN With(separated_list_more(list, first.rest), LAMBDA more :
           POk(more.rest, <<first.value>> \o more.value))
    ELSE POk(input, <<>>))

\* this version of the grammar has no vertical visibility group
nom_described_obscuration(input) ==
  Then(nom_visibility(input), LAMBDA visibility :
  With(separated_list0("present_weather", after_opt_space(visibility.rest)),
       LAMBDA present_weather :
  With(separated_list0("rvr", after_opt_space(present_weather.rest)),
       LAMBDA rvr :
  With(separated_list0("clouds", after_opt_space(rvr.rest)), LAMBDA clouds :
    POk(clouds.rest,
        Described([unit |-> visibility.value.value.unit,
                   value |-> visibility.value.value.value,
                   ndv |-> visibility.value.ndv],
                  rvr.value, clouds.value, None,
                  present_weather.value))))))

nom_obscuration(input) ==
  IF StartsWith(input, <<"C", "A", "V", "O", "K">>)
  THEN POk(Drop(input, 5), Cavok)
  ELSE nom_described_obscuration(input)

\* ------------------------------------------------------------------------
\* metar_decoder: temperature.rs, pressure.rs
\* ------------------------------------------------------------------------
nom_maybe_negative_temp(input) ==
  With(opt(tag(<<"M">>, input), input), LAMBDA sign :
    Then(i32(sign.rest), LAMBDA temp :
      POk(temp.rest,
          IF IsSome(sign.value) THEN 0 - temp.value ELSE temp.value)))

\* optional_field(nom_maybe_negative_temp)
optional_temp(input) ==
  optional_field(2, nom_maybe_negative_temp(input), input)

nom_temprature_info(input) ==
  Then(optional_temp(input), LAMBDA temp :
    Then(preceded(<<"/">>, optional_temp, temp.rest), LAMBDA dew_point :
      POk(dew_point.rest,
          [temp |-> temp.value, dew_point |-> dew_point.value])))

\* (char(letter), four digits) with the unit of the letter
nom_pressure_single(input, letter, unit) ==
  Then(preceded(<<letter>>, LAMBDA i : optional_digits(4, i), input),
       LAMBDA value :
         POk(value.rest, [value |-> value.value, unit |-> unit]))

nom_pressure(input) ==
  With(opt(nom_pressure_single(input, "Q", "Hectopascals"), input),
       LAMBDA qnh :
  With(opt(nom_pressure_single(qnh.rest, "A", "InchesOfMercury"), qnh.rest),
       LAMBDA altimeter :
    IF IsSome(qnh.value) \/ IsSome(altimeter.value)
    THEN POk(altimeter.rest,
             [qnh |-> qnh.value, altimeter |-> altimeter.value])
    ELSE PErr))

\* ------------------------------------------------------------------------
\* metar_decoder: the groups after the pressure
\* ------------------------------------------------------------------------
\* "RExx": one group of recent weather
recent_weather_element(input) ==
  preceded(<<"R", "E">>, nom_present_weather, input)

\* RExx groups of recent weather after the first, separated by one blank
RECURSIVE recent_weather_more(_)
recent_weather_more(input) ==
  With(preceded(<<" ">>, recent_weather_element, input), LAMBDA next :
    IF next.ok
    THEN With(recent_weather_more(next.rest), LAMBDA more :
           POk(more.rest, <<next.value>> \o more.value))
    ELSE POk(input, <<>>))

nom_recent_present_weather(input) ==
  Then(recent_weather_element(input), LAMBDA first :
    With(recent_weather_more(first.rest), LAMBDA more :
      POk(more.rest, <<first.value>> \o more.value)))

\* complete::u8 and complete::u16: a number of at most max
number_up_to(max, input) ==
  Then(u32(input), LAMBDA number :
    IF number.value <= max THEN number ELSE PErr)

\* complete::u8 mapped to CodeTable3700
code_table_3700(input) ==
  Then(number_up_to(255, input), LAMBDA code :
    IF code.value <= 9 THEN code ELSE PErr)

nom_state_of_sea(input) ==
  Then(preceded(<<"S">>,
                LAMBDA i : optional_field(1, code_table_3700(i), i), input),
       LAMBDA state :
         POk(state.rest, [kind |-> "SeaSate", value |-> state.value]))

nom_significant_wave_height(input) ==
  Then(preceded(<<"H">>,
                LAMBDA i : optional_field(3, number_up_to(65535, i), i),
                input),
       LAMBDA height :
         POk(height.rest,
             [kind |-> "SignificantWaveHeight", value |-> height.value]))

\* alt((nom_state_of_sea, nom_significant_wave_height))
nom_state_or_height(input) ==
  With(nom_state_of_sea(input), LAMBDA state :
    IF state.ok THEN state ELSE nom_significant_wave_height(input))

nom_sea_surface_indicator(input) ==
  Then(preceded(<<"W">>, optional_temp, input), LAMBDA temperature :
    Then(preceded(<<"/">>,
                  LAMBDA i : optional_field(2, nom_state_or_height(i), i),
                  temperature.rest),
         LAMBDA state_of_sea :
           POk(state_of_sea.rest,
               [temperature |-> temperature.value,
                state_of_sea |-> state_of_sea.value])))

NatoMilCodeTags ==
  << << <<"B", "L", "U">>, "Blue">>, << <<"W", "H", "T">>, "White">>,
     << <<"G", "R", "N">>, "Green">>, << <<"Y", "L", "O">>, "Yellow">>,
     << <<"A", "M", "B">>, "Amber">>, << <<"R", "E", "D">>, "Red">>,
     << <<"B", "L", "A", "C", "K">>, "Black">> >>

\* (alt((colours)), opt(one_of("+-")))
nom_nato_mil_code_entry(input) ==
  Then(alt_tags(NatoMilCodeTags, input), LAMBDA colour :
    With(opt(alt_tags(<< << <<"+">>, "+">>, << <<"-">>, "-">> >>,
                      colour.rest),
             colour.rest),
         LAMBDA sign :
           POk(sign.rest, <<colour.value, sign.value>>)))

\* separated_list1(space0, entry) after its first entry
RECURSIVE nato_mil_code_more(_)
nato_mil_code_more(input) ==
  With(nom_nato_mil_code_entry(space0(input)), LAMBDA next :
    IF next.ok
    THEN With(nato_mil_code_more(next.rest), LAMBDA more :
           POk(more.rest, <<next.value>> \o more.value))
    ELSE POk(input, <<>>))

nom_nato_mil_code(input) ==
  Then(nom_nato_mil_code_entry(input), LAMBDA first :
    With(nato_mil_code_more(first.rest), LAMBDA more :
      POk(more.rest, [codes |-> <<first.value>> \o more.value])))

\* VVhhh
nom_vertical_visibility(input) ==
  preceded(<<"V", "V">>, LAMBDA i : optional_digits(3, i), input)

\* many1(preceded(space0, element)) after its first element
RECURSIVE many0_spaced(_, _)
many0_spaced(list, input) ==
  With(obscuration_element(list, space0(input)), LAMBDA next :
    IF next.ok
    THEN With(many0_spaced(list, next.rest), LAMBDA more :
           POk(more.rest, <<next.value>> \o more.value))
    ELSE POk(input, <<>>))

many1_spaced(list, input) ==
  Then(obscuration_element(list, space0(input)), LAMBDA first :
    With(many0_spaced(list, first.rest), LAMBDA more :
      POk(more.rest, <<first.value>> \o more.value)))

\* trend.rs: every part of a trend is optional
nom_becoming(input) ==
  With(opt(nom_wind(space0(input)), input), LAMBDA wind :
  With(opt(nom_visibility(space0(wind.rest)), wind.rest),
       LAMBDA visibility :
  With(opt(many1_spaced("present_weather", visibility.rest),
           visibility.rest),
       LAMBDA weather :
  With(opt(many1_spaced("clouds", weather.rest), weather.rest),
       LAMBDA cloud_layers :
  With(opt(nom_vertical_visibility(space0(cloud_layers.rest)),
           cloud_layers.rest),
       LAMBDA vv :
    POk(vv.rest,
        [wind |-> wind.value,
         visibility |-> visibility.value,
         expected_present_weather |-> weather.value,
         cloud_layers |-> cloud_layers.value,
         vertical_visibility |-> vv.value]))))))

\* opt(preceded((space0, tag(word)), nom_becoming))
nom_trend(word, input) ==
  opt(preceded(word, nom_becoming, space0(input)), input)

\* rest.map_res(..): a remark is the non-empty rest of the line
remark_text(input) ==
  IF input # <<>> THEN POk(<<>>, input) ELSE PErr

\* opt(preceded((space0, tag("RMK ")), rest.map_res(..)))
nom_remark(input) ==
  opt(preceded(<<"R", "M", "K", " ">>, remark_text, space0(input)), input)

\* ------------------------------------------------------------------------
\* metar_decoder: metar.rs
\* ------------------------------------------------------------------------
\* a member of the permutation that has matched is not tried again
untried(done, r) == IF IsSome(done) THEN PErr ELSE r

\* all three members have matched: the values in the declared order
permutation_end(input, done) ==
  IF /\ IsSome(done.obscuration)
     /\ IsSome(done.temprature)
     /\ IsSome(done.pressure)
  THEN POk(input, [obscuration |-> Unwrap(done.obscuration),
                   temprature |-> Unwrap(done.temprature),
                   pressure |-> Unwrap(done.pressure)])
  ELSE PErr

\* permutation((preceded(char(' '), nom_obscuration),
\*              preceded(opt(char(' ')), nom_temprature_info),
\*              preceded(char(' '), nom_pressure))): at each position the
\* members that have not matched yet are tried in this order, and the first
\* that matches consumes its group; it fails when none of them matches
RECURSIVE permutation(_, _)
permutation(input, done) ==
  With(untried(done.obscuration, preceded(<<" ">>, nom_obscuration, input)),
       LAMBDA obscuration :
    IF obscuration.ok
    THEN permutation(obscuration.rest,
                     [done EXCEPT !.obscuration = Some(obscuration.value)])
    ELSE
  With(untried(done.temprature, nom_temprature_info(after_opt_space(input))),
       LAMBDA temprature :
    IF temprature.ok
    THEN permutation(temprature.rest,
                     [done EXCEPT !.temprature = Some(temprature.value)])
    ELSE
  With(untried(done.pressure, preceded(<<" ">>, nom_pressure, input)),
       LAMBDA pressure :
    IF pressure.ok
    THEN permutation(pressure.rest,
                     [done EXCEPT !.pressure = Some(pressure.value)])
    ELSE permutation_end(input, done))))

NothingMatched == [obscuration |-> None, temprature |-> None, pressure |-> None]

\* take(4usize)
take4(input) ==
  IF Len(input) >= 4 THEN POk(Drop(input, 4), SubSeq(input, 1, 4)) ELSE PErr

\* preceded(space0, opt(parser)) on the result r the parser gave after the
\* blanks
spaced_opt(r, input) == opt(r, space0(input))

nom_parse_metar(input) ==
  Then(take4(input), LAMBDA icao :
  Then(preceded(<<" ">>, nom_metar_timestamp, icao.rest),
       LAMBDA timestamp :
  With(opt(tag(<<" ", "C", "O", "R">>, timestamp.rest), timestamp.rest),
       LAMBDA corrected :
  With(opt(tag(<<" ", "A", "U", "T", "O">>, corrected.rest), corrected.rest),
       LAMBDA auto :
  Then(preceded(<<" ">>, nom_wind, auto.rest), LAMBDA wind :
  Then(permutation(wind.rest, NothingMatched), LAMBDA groups :
  With(spaced_opt(nom_recent_present_weather(space0(groups.rest)),
                  groups.rest),
       LAMBDA recent_weather :
  With(spaced_opt(nom_sea_surface_indicator(space0(recent_weather.rest)),
                  recent_weather.rest),
       LAMBDA sea_surface_indicator :
  With(opt(optional_field(
             3, nom_nato_mil_code(space0(sea_surface_indicator.rest)),
             space0(sea_surface_indicator.rest)),
           sea_surface_indicator.rest),
       LAMBDA nato_mil_code :
  With(opt(tag(<<"N", "O", "S", "I", "G">>, space0(nato_mil_code.rest)),
           nato_mil_code.rest),
       LAMBDA nosig :
  With(nom_trend(<<"B", "E", "C", "M", "G">>, nosig.rest), LAMBDA becoming :
  With(nom_trend(<<"T", "E", "M", "P", "O">>, becoming.rest), LAMBDA tempo :
  With(nom_remark(tempo.rest), LAMBDA remark :
    POk(remark.rest,
        [raw |-> input,
         icao |-> icao.value,
         timestamp |-> timestamp.value,
         corrected |-> IsSome(corrected.value),
         auto |-> IsSome(auto.value),
         wind |-> wind.value,
         obscuration |-> groups.value.obscuration,
         temprature |-> groups.value.temprature,
         pressure |-> groups.value.pressure,
         recent_weather |-> recent_weather.value,
         nosig |-> IsSome(nosig.value),
         sea_surface_indicator |-> sea_surface_indicator.value,
         becoming |-> becoming.value,
         tempo |-> tempo.value,
         nato_mil_code |-> nato_mil_code.value,
         remarks |-> remark.value]))))))))))))))

\* nom::error::Error::new(rest.to_string(), ErrorKind::NonEmpty)
NonEmptyError(rest) == Err([input |-> rest, code |-> "NonEmpty"])

\* the error of the grammar
GrammarError == Err([code |-> "Grammar"])

\* from_str without the check of the unconsumed rest
from_str_ignoring_rest(s) ==
  With(nom_parse_metar(s), LAMBDA parsed :
    IF ~parsed.ok THEN GrammarError ELSE Ok(parsed.value))

\* impl FromStr for Metar
from_str(s) ==
  With(nom_parse_metar(s), LAMBDA parsed :
    IF ~parsed.ok THEN GrammarError
    ELSE IF parsed.rest # <<>> THEN NonEmptyError(parsed.rest)
    ELSE Ok(parsed.value))

\* ------------------------------------------------------------------------
\* The decoder called on its own: report lines put together from a header
\* (station, time, modifiers, wind), the sky-state, temperature and pressure
\* groups in one of their six orders, and a tail.  Every part is the text
\* and what the text stands for.
\* ------------------------------------------------------------------------

\* <<text, the mandatory leading groups are well-formed>>
LineHeaders ==
  {
    \* "ENHV 081620Z 08008KT"
    << <<"E", "N", "H", "V", " ", "0", "8", "1", "6", "2", "0", "Z", " ", "0",
       "8", "0", "0", "8", "K", "T">>,
       TRUE >>,
    \* "ENHV 081620Z AUTO 25006KT 200V290"
    << <<"E", "N", "H", "V", " ", "0", "8", "1", "6", "2", "0", "Z", " ", "A",
       "U", "T", "O", " ", "2", "5", "0", "0", "6", "K", "T", " ", "2", "0",
       "0", "V", "2", "9", "0">>,
       TRUE >>,
    \* "ENGM 080920Z COR VRB03KT"
    << <<"E", "N", "G", "M", " ", "0", "8", "0", "9", "2", "0", "Z", " ", "C",
       "O", "R", " ", "V", "R", "B", "0", "3", "K", "T">>,
       TRUE >>,
    \* "ENHV 0816Z 08008KT"
    << <<"E", "N", "H", "V", " ", "0", "8", "1", "6", "Z", " ", "0", "8", "0",
       "0", "8", "K", "T">>,
       FALSE >>,
    \* "ENHV 081620Z 080KT"
    << <<"E", "N", "H", "V", " ", "0", "8", "1", "6", "2", "0", "Z", " ", "0",
       "8", "0", "K", "T">>,
       FALSE >>,
    \* "ENH"
    << <<"E", "N", "H">>,
       FALSE >>
  }

\* <<text, Obscuration>>
SkyGroups ==
  {
    \* "9999"
    << <<"9", "9", "9", "9">>,
       Described([unit |-> "Meters", value |-> Some(9999), ndv |-> FALSE],
                <<>>, <<>>, None, <<>>) >>,
    \* "CAVOK"
    << <<"C", "A", "V", "O", "K">>,
       Cavok >>,
    \* "9999 OVC006"
    << <<"9", "9", "9", "9", " ", "O", "V", "C", "0", "0", "6">>,
       Described([unit |-> "Meters", value |-> Some(9999), ndv |-> FALSE],
                <<>>,
                <<[kind |-> "CloudData", coverage |-> Some("Overcast"),
                   height |-> Some(6), cloud_type |-> None]>>,
                None, <<>>) >>,
    \* "4000 -DZ"
    << <<"4", "0", "0", "0", " ", "-", "D", "Z">>,
       Described([unit |-> "Meters", value |-> Some(4000), ndv |-> FALSE],
                <<>>, <<>>, None,
                <<[intensity |-> Some("Light"), descriptor |-> None,
                   phenomena |-> <<"DZ">>]>>) >>
  }

\* <<text, TempratureInfo>>
TemperatureGroups ==
  {
    \* "08/07"
    << <<"0", "8", "/", "0", "7">>,
       [temp |-> Some(8), dew_point |-> Some(7)] >>,
    \* "M09/M12"
    << <<"M", "0", "9", "/", "M", "1", "2">>,
       [temp |-> Some(-9), dew_point |-> Some(-12)] >>
  }

\* <<text, Pressure>>
PressureGroups ==
  {
    \* "Q1001"
    << <<"Q", "1", "0", "0", "1">>,
       [qnh |-> Some([value |-> Some(1001), unit |-> "Hectopascals"]),
        altimeter |-> None] >>
  }

\* <<text, what the grammar leaves of it>>
LineTails ==
  {
    \* ""
    << <<>>,
       <<>> >>,
    \* " NOSIG"
    << <<" ", "N", "O", "S", "I", "G">>,
       <<>> >>,
    \* " RMK WIND 1200FT"
    << <<" ", "R", "M", "K", " ", "W", "I", "N", "D", " ", "1", "2", "0", "0",
       "F", "T">>,
       <<>> >>,
    \* "  "
    << <<" ", " ">>,
       <<>> >>,
    \* " XYZ"
    << <<" ", "X", "Y", "Z">>,
       <<"X", "Y", "Z">> >>,
    \* " NOSIG ="
    << <<" ", "N", "O", "S", "I", "G", " ", "=">>,
       <<" ", "=">> >>
  }

\* the six relative orders of the three groups
GroupOrders ==
  { <<"sky", "temperature", "pressure">>, <<"sky", "pressure", "temperature">>,
    <<"temperature", "sky", "pressure">>, <<"temperature", "pressure", "sky">>,
    <<"pressure", "sky", "temperature">>, <<"pressure", "temperature", "sky">> }

LineParts ==
  [header : LineHeaders, sky : SkyGroups, temperature : TemperatureGroups,
   pressure : PressureGroups, order : GroupOrders, tail : LineTails]

\* the text of the line: the groups in their order, one blank before each
LineOf(parts) ==
  parts.header[1]
  \o <<" ">> \o parts[parts.order[1]][1]
  \o <<" ">> \o parts[parts.order[2]][1]
  \o <<" ">> \o parts[parts.order[3]][1]
  \o parts.tail[1]

DecoderInit ==
  /\ pc = "decode"
  /\ config = [ignore_airports |-> {}, default_runways |-> <<>>]
  /\ airports = <<>>
  /\ now = None
  /\ fatal = None
  /\ rwy_file = <<>>
  /\ report = <<>>
  /\ merged = {}
  /\ feed = None
  /\ probe \in {Some([op |-> "line", parts |-> parts, line |-> LineOf(parts),
                      out |-> None]) : parts \in LineParts}

\* Metar::from_str on the line
FromStr ==
  /\ pc = "decode"
  /\ IsSome(probe)
  /\ Unwrap(probe).op = "line"
  /\ probe' = Some([Unwrap(probe) EXCEPT
                      !.op = "from_str",
                      !.out = from_str(Unwrap(probe).line)])
  /\ UNCHANGED
       <<pc, config, airports, now, fatal, rwy_file, report, merged, feed>>

DecoderNext == FromStr

DecoderSpec == DecoderInit /\ [][DecoderNext]_vars

\* ------------------------------------------------------------------------
\* Properties of the decoder
\* ------------------------------------------------------------------------
ProbedLine == Unwrap(probe).line

ProbedParts == Unwrap(probe).parts

\* what nom_parse_metar makes of the probed line
GrammarOf == nom_parse_metar(ProbedLine)

\* C23: Metar::from_str returns Ok only when the grammar consumes the whole
\* input; when the mandatory leading groups do not match it returns the
\* grammar error; when the grammar matches and unconsumed text remains it
\* returns the error whose input field is exactly that remainder.
C23_FromStrOutcome ==
  ProbeOp = "from_str" =>
    /\ ProbeOut.kind = "Ok"
         => /\ GrammarOf.ok
            /\ GrammarOf.rest = <<>>
            /\ ProbedParts.header[2]
            /\ ProbedParts.tail[2] = <<>>
    /\ ~ProbedParts.header[2] => ProbeOut = GrammarError
    /\ (GrammarOf.ok /\ GrammarOf.rest # <<>>)
         => ProbeOut = NonEmptyError(GrammarOf.rest)
    /\ (GrammarOf.ok /\ ProbedParts.tail[2] # <<>>)
         => ProbeOut = NonEmptyError(ProbedParts.tail[2])

\* "ENHV 081620Z 08008KT 9999 08/07 Q1001 XYZ" leaves "XYZ"
C23_Witness ==
  /\ ProbeOp = "from_str"
  /\ ProbedParts.header[2]
  /\ ProbedParts.order = <<"sky", "temperature", "pressure">>
  /\ ProbeOut = NonEmptyError(<<"X", "Y", "Z">>)

\* C24 as stated: after a well-formed header, the sky-state, temperature and
\* pressure groups are accepted in each of their six orders and decode to
\* the same three values in every order.
C24_EveryOrderAccepted ==
  (/\ ProbeOp = "from_str"
   /\ ProbedParts.header[2]
   /\ ProbedParts.tail[2] = <<>>)
  => /\ ProbeOut.kind = "Ok"
     /\ ProbeOut.value.obscuration = ProbedParts.sky[2]
     /\ ProbeOut.value.temprature = ProbedParts.temperature[2]
     /\ ProbeOut.value.pressure = ProbedParts.pressure[2]

\* ------------------------------------------------------------------------
\* es_runway_selector/src/metar.rs: get_metars and get_metars_from_url
\* ------------------------------------------------------------------------
\* the pages are read in this order
Urls == <<"https://metar.vatsim.net/EN", "https://metar.vatsim.net/ESKS">>

retries == 3

\* the station codes of the ignore list as text
StationText ==
  [ENGM |-> <<"E", "N", "G", "M">>, ENZV |-> <<"E", "N", "Z", "V">>,
   ENHV |-> <<"E", "N", "H", "V">>, ENXX |-> <<"E", "N", "X", "X">>]

\* the index of the first "\n" of the text, or one past its end
RECURSIVE line_end(_, _)
line_end(text, i) ==
  IF i > Len(text) \/ text[i] = "\n" THEN i ELSE line_end(text, i + 1)

\* a line without the "\r" a "\r\n" leaves at its end
without_cr(line) ==
  IF line # <<>> /\ line[Len(line)] = "\r"
  THEN SubSeq(line, 1, Len(line) - 1)
  ELSE line

\* str::lines: the text split at every "\n", a "\r" before it dropped; no
\* line for the empty text after the last "\n"
RECURSIVE lines(_)
lines(text) ==
  IF text = <<>> THEN <<>>
  ELSE With(line_end(text, 1), LAMBDA n :
         <<without_cr(SubSeq(text, 1, n - 1))>>
         \o lines(SubSeq(text, n + 1, Len(text))))

\* the lines of all pages, in the order of the pages
RECURSIVE flat_map_lines(_)
flat_map_lines(pages) ==
  IF pages = <<>> THEN <<>>
  ELSE lines(Head(pages)) \o flat_map_lines(Tail(pages))

\* ignore.contains(&line[0..4])
ignored(ignore, line) ==
  \E icao \in ignore : StationText[icao] = SubSeq(line, 1, 4)

\* the step of .filter(..).map(Metar::from_str).filter_map(Result::ok_or_log)
\* for one line, put before what the later lines give: a line of an ignored
\* station and a line that does not decode add nothing
collect_line(ignore, line, later) ==
  IF later.kind = "Panic" \/ ignored(ignore, line) THEN later
  ELSE With(from_str(line), LAMBDA metar :
         IF metar.kind = "Ok"
         THEN Ok(<<metar.value>> \o later.value)
         ELSE later)

\* .filter(..).map(Metar::from_str).filter_map(Result::ok_or_log).collect()
\* over the lines: &line[0..4] panics on a line of fewer than four bytes
RECURSIVE collect_metars(_, _)
collect_metars(ignore, text_lines) ==
  IF text_lines = <<>> THEN Ok(<<>>)
  ELSE IF Len(Head(text_lines)) < 4
  THEN Panic("byte index 4 is out of bounds")
  ELSE collect_line(ignore, Head(text_lines),
                    collect_metars(ignore, Tail(text_lines)))

\* Option::get_or_insert that replaces the value it holds
get_or_insert_latest(option, e) == Some(e)

\* Option::get_or_insert, as the Option afterwards
get_or_insert(option, e) == IF IsSome(option) THEN option ELSE Some(e)

\* report lines of the pages
\* "ENHV 081620Z 08008KT 9999 08/07 Q1001"
LineEnhv ==
  <<"E", "N", "H", "V", " ", "0", "8", "1", "6", "2", "0", "Z", " ", "0", "8",
    "0", "0", "8", "K", "T", " ", "9", "9", "9", "9", " ", "0", "8", "/", "0",
    "7", " ", "Q", "1", "0", "0", "1">>

\* "ENZV 081620Z 27030KT CAVOK 08/07 Q1001"
LineEnzv ==
  <<"E", "N", "Z", "V", " ", "0", "8", "1", "6", "2", "0", "Z", " ", "2", "7",
    "0", "3", "0", "K", "T", " ", "C", "A", "V", "O", "K", " ", "0", "8", "/",
    "0", "7", " ", "Q", "1", "0", "0", "1">>

\* "ENHV 0816Z 08008KT"
LineUndecodable ==
  <<"E", "N", "H", "V", " ", "0", "8", "1", "6", "Z", " ", "0", "8", "0", "0",
    "8", "K", "T">>

\* "ESKS 081620Z 18004KT CAVOK M02/M05 Q1020"
LineEsks ==
  <<"E", "S", "K", "S", " ", "0", "8", "1", "6", "2", "0", "Z", " ", "1", "8",
    "0", "0", "4", "K", "T", " ", "C", "A", "V", "O", "K", " ", "M", "0", "2",
    "/", "M", "0", "5", " ", "Q", "1", "0", "2", "0">>

\* a line of fewer than four bytes: the empty line
LineShort == <<>>

\* lines of one page: at most MaxLines
MaxLines == 2

\* the text of a page: every line followed by "\n"
RECURSIVE PageText(_)
PageText(page_lines) ==
  IF page_lines = <<>> THEN <<>>
  ELSE Head(page_lines) \o <<"\n">> \o PageText(Tail(page_lines))

\* the bodies a URL can answer with
Pages ==
  [EN |-> {PageText(page_lines) :
             page_lines \in SeqsUpTo({LineEnhv, LineEnzv, LineUndecodable,
                                      LineShort}, MaxLines)},
   ESKS |-> {<<>>, PageText(<<LineEsks>>), LineEsks}]

PagesOf(i) == IF i = 1 THEN Pages.EN ELSE Pages.ESKS

\* reqwest errors of send() and of text()
SendErrors == {"timeout"}

TextErrors == {"body"}

\* get_metars_from_url before its first attempt
NewFetch ==
  [awaiting |-> "send", tries |-> 0, first_error |-> None,
   returned |-> None, log |-> <<>>]

FeedInit ==
  /\ pc = "get_metars"
  /\ config \in {[ignore_airports |-> ignore, default_runways |-> <<>>] :
                   ignore \in {{}, {"ENZV"}}}
  /\ airports = <<>>
  /\ now = None
  /\ fatal = None
  /\ rwy_file = <<>>
  /\ report = <<>>
  /\ merged = {}
  /\ probe = None
  /\ feed = Some([fetch |-> [i \in DOMAIN Urls |-> NewFetch],
                   result |-> None])

Fetches == Unwrap(feed).fetch

\* the end of a pass of the loop that failed, first_error being the Option
\* after get_or_insert: after the last pass the function returns the first
\* error
end_of_failed_pass(fetch, e, first_error) ==
  [awaiting |-> IF fetch.tries + 1 = retries THEN "done" ELSE "send",
   tries |-> fetch.tries + 1,
   first_error |-> first_error,
   returned |-> IF fetch.tries + 1 = retries
                THEN Some(Err(Unwrap(first_error)))
                ELSE None,
   log |-> Append(fetch.log, Err(e))]

\* a pass of the loop that failed with e
failed_attempt(fetch, e) ==
  end_of_failed_pass(fetch, e, get_or_insert(fetch.first_error, e))

\* return Ok(text)
returned_text(fetch, text) ==
  [fetch EXCEPT !.awaiting = "done",
                !.tries = fetch.tries + 1,
                !.returned = Some(Ok(text)),
                !.log = Append(fetch.log, Ok(text))]

\* the fetch has returned an error
Failed(fetch) ==
  IsSome(fetch.returned) /\ Unwrap(fetch.returned).kind = "Err"

\* try_join_all(..).await? and the rest of get_metars, once a fetch has
\* returned: the first Err ends get_metars, and when every fetch has
\* returned its page the reports of all pages are collected
get_metars_result(fetch) ==
  IF \E i \in DOMAIN fetch : Failed(fetch[i])
  THEN Some(Unwrap(fetch[CHOOSE i \in DOMAIN fetch :
                           Failed(fetch[i])].returned))
  ELSE IF \A i \in DOMAIN fetch : IsSome(fetch[i].returned)
  THEN Some(collect_metars(
              config.ignore_airports,
              flat_map_lines([i \in DOMAIN fetch |->
                                Unwrap(fetch[i].returned).value])))
  ELSE None

Fetching(i) ==
  /\ pc = "get_metars"
  /\ IsSome(feed)
  /\ Unwrap(feed).result = None
  /\ Fetches[i].awaiting # "done"

Fetched(fetch) ==
  /\ feed' = Some([fetch |-> fetch, result |-> get_metars_result(fetch)])
  /\ UNCHANGED
       <<pc, config, airports, now, fatal, rwy_file, report, merged, probe>>

\* .get(url).send().await of one pass
Send ==
  \E i \in DOMAIN Urls :
    /\ Fetching(i)
    /\ Fetches[i].awaiting = "send"
    /\ \/ Fetched([Fetches EXCEPT ![i].awaiting = "text"])
       \/ \E e \in SendErrors :
            Fetched([Fetches EXCEPT ![i] = failed_attempt(@, e)])

\* resp.text().await of one pass
Text ==
  \E i \in DOMAIN Urls :
    /\ Fetching(i)
    /\ Fetches[i].awaiting = "text"
    /\ \/ \E text \in PagesOf(i) :
            Fetched([Fetches EXCEPT ![i] = returned_text(@, text)])
       \/ \E e \in TextErrors :
            Fetched([Fetches EXCEPT ![i] = failed_attempt(@, e)])

FeedNext ==
  \/ Send
  \/ Text

FeedSpec == FeedInit /\ [][FeedNext]_vars

\* ------------------------------------------------------------------------
\* Properties of get_metars
\* ------------------------------------------------------------------------
InGetMetars == pc = "get_metars" /\ IsSome(feed)

\* the outcomes of the completed passes of the loop for URL i, in order
PassesOf(i) == Fetches[i].log

AllFailed(i) == \A k \in DOMAIN PassesOf(i) : PassesOf(i)[k].kind = "Err"

\* the passes begun for URL i: the completed ones and the one whose
\* response is being read
PassesBegun(i) ==
  Len(PassesOf(i)) + (IF Fetches[i].awaiting = "text" THEN 1 ELSE 0)

\* C25: get_metars_from_url makes at most 3 attempts for a URL; the first
\* attempt whose response and body both succeed is the last one and its body
\* is returned; after the third failed attempt it returns an error (the
\* first one met); it returns in no other case.
C25_AtMostThreeAttempts ==
  InGetMetars =>
    \A i \in DOMAIN Urls :
      /\ PassesBegun(i) <= 3
      /\ Fetches[i].tries = Len(PassesOf(i))
      /\ \A k \in DOMAIN PassesOf(i) :
           PassesOf(i)[k].kind = "Ok"
             => /\ k = Len(PassesOf(i))
                /\ Fetches[i].awaiting = "done"
                /\ Fetches[i].returned = Some(PassesOf(i)[k])
      /\ (Len(PassesOf(i)) = 3 /\ AllFailed(i))
           => /\ Fetches[i].awaiting = "done"
              /\ Fetches[i].returned = Some(PassesOf(i)[1])
      /\ (Len(PassesOf(i)) < 3 /\ AllFailed(i))
           => Fetches[i].returned = None

\* the first URL returns its page at the second attempt; the second URL
\* fails three times, first reading the body and then sending
C25_Witness ==
  /\ InGetMetars
  /\ Len(PassesOf(1)) = 2
  /\ PassesOf(1)[1].kind = "Err"
  /\ PassesOf(1)[2].kind = "Ok"
  /\ PassesOf(2) = <<Err("body"), Err("timeout"), Err("timeout")>>
  /\ Fetches[2].returned = Some(Err("body"))

\* every fetch has returned its page
AllPagesFetched ==
  /\ InGetMetars
  /\ \A i \in DOMAIN Urls :
       /\ IsSome(Fetches[i].returned)
       /\ Unwrap(Fetches[i].returned).kind = "Ok"

\* the lines of the fetched pages, in the order of the URLs
FetchedLines ==
  flat_map_lines([i \in DOMAIN Urls |-> Unwrap(Fetches[i].returned).value])

\* a line of a station that is not ignored and that decodes
DecodableLine(line) ==
  /\ ~(Len(line) >= 4 /\ ignored(config.ignore_airports, line))
  /\ from_str(line).kind = "Ok"

\* the observations of the decodable lines, in the order of the lines
DecodableObservations ==
  LET kept == SelectSeq(FetchedLines, DecodableLine)
  IN [k \in DOMAIN kept |-> from_str(kept[k]).value]

\* C26 as stated: for any fetched batch of lines get_metars returns exactly
\* the observations of the lines of non-ignored stations that decode, in
\* input order; a line that fails to decode is dropped and never aborts the
\* batch.
C26_DecodableLinesReturned ==
  AllPagesFetched => Unwrap(feed).result = Some(Ok(DecodableObservations))

\* ------------------------------------------------------------------------
\* select_runway_in_use on its own: collections of airports that hold their
\* observation and their ATIS entry, in every order of the map
\* ------------------------------------------------------------------------
\* an airport as add_metars and read_atis_and_apply_runways leave it
SelectAirport(metar, atis) ==
  [NewAirport(metar.icao) EXCEPT
     !.metar = Some(metar),
     !.runways_in_use = IF atis = <<>> THEN EmptyInUse ELSE Put(@, "Atis", atis)]

SelectAirports ==
  {SelectAirport(metar, <<>>) :
     metar \in {Metar("ENGM", Wind(Heading(20), Some(6), None), Cavok, Some(10)),
                Metar("ENGM", Wind(VariableDir, Some(3), None), Clear9999,
                      Some(10)),
                Metar("ENZV", Wind(Heading(270), Some(30), None), Cavok,
                      Some(8)),
                Metar("ENXX", Wind(Heading(40), Some(10), None), Cavok,
                      Some(8))}}
  \cup {SelectAirport(metar, atis) :
          metar \in {Metar("ENHV", Wind(Heading(80), Some(8), None),
                           Clear9999, Some(8)),
                     Metar("ENHV", Wind(Heading(170), None, None), Clear9999,
                           Some(8))},
          atis \in {<<>>, << <<Id("2", "6"), "Both">> >>}}
  \cup {NewAirport("ENHV")}

\* every order of the members of S
Orders(S) ==
  {order \in [1..Cardinality(S) -> S] :
     \A i, j \in 1..Cardinality(S) : i # j => order[i] # order[j]}

\* IndexMap<String, Airport>: one airport for each icao of some set, in any
\* order of insertion
SelectCollections ==
  UNION {{[i \in DOMAIN order |-> chosen[order[i]]] :
            order \in Orders(icaos),
            chosen \in {c \in [icaos -> SelectAirports] :
                          \A icao \in icaos : c[icao].icao = icao}} :
           icaos \in SUBSET {"ENGM", "ENHV", "ENZV", "ENXX"}}

SelectInit ==
  /\ pc = "atis"
  /\ config \in Configs
  /\ airports \in SelectCollections
  /\ now = None
  /\ fatal = None
  /\ rwy_file = <<>>
  /\ report = <<>>
  /\ merged = {}
  /\ feed = None
  /\ probe = Some([op |-> "select_runway_in_use", airports |-> airports])

SelectNext ==
  \/ RunwayInUseBasedOnMetar
  \/ ApplyDefaultRunways

SelectSpec == SelectInit /\ [][SelectNext]_vars

\* the collection select_runway_in_use was called on
SelectInput == Unwrap(probe).airports

InSelect == IsSome(probe) /\ Unwrap(probe).op = "select_runway_in_use"

\* the clock reading of the call; no reading is made without ENGM
ClockRead == IF IsSome(now) THEN Unwrap(now) ELSE EarlyMorning

\* the loop bodies of both walks for one airport on its own
SelectedAlone(airport) == default_step(metar_step(airport, ClockRead).value)

PanicsAlone(airport) == metar_step(airport, ClockRead).kind = "Panic"

\* both walks over the collection aps, in the order of aps
SelectedInOrder(aps) ==
  LET steps == [i \in DOMAIN aps |-> metar_step(aps[i], ClockRead)]
  IN IF FirstPanic(steps) # 0 THEN Panic(walk_fatal(aps, steps))
     ELSE Ok([i \in DOMAIN aps |-> default_step(walk_result(aps, steps)[i])])

\* C27: what select_runway_in_use leaves on an airport is what its two loop
\* bodies make of that airport alone, given the configuration and the clock
\* reading; the same airports walked in any other order end with the same
\* per-airport results, and the walk panics in one order exactly when it
\* panics in every order.
C27_ResultIndependentOfOrder ==
  InSelect =>
    /\ pc = "selected" =>
         /\ \A i \in DOMAIN airports :
              /\ ~PanicsAlone(SelectInput[i])
              /\ airports[i] = SelectedAlone(SelectInput[i])
         /\ \A order \in Orders(DOMAIN airports) :
              SelectedInOrder([i \in DOMAIN order |-> SelectInput[order[i]]])
                = Ok([i \in DOMAIN order |-> airports[order[i]]])
    /\ pc = "panicked" =>
         /\ \E i \in DOMAIN airports : PanicsAlone(SelectInput[i])
         /\ \A order \in Orders(DOMAIN airports) :
              SelectedInOrder([i \in DOMAIN order |-> SelectInput[order[i]]]).kind
                = "Panic"

\* three airports with ENGM walked last: ENHV took the runway of its wind,
\* ENZV the configured default next to its wind pick, ENGM its policy result
C27_Witness ==
  /\ InSelect
  /\ pc = "selected"
  /\ Len(airports) = 3
  /\ airports[1].icao = "ENHV"
  /\ airports[2].icao = "ENZV"
  /\ airports[3].icao = "ENGM"
  /\ DOMAIN airports[1].runways_in_use = {"Atis", "Metar", "Default"}
  /\ "Default" \in DOMAIN airports[2].runways_in_use
  /\ "Metar" \in DOMAIN airports[3].runways_in_use
  /\ airports # SelectInput

\* the .rwy file the probed writer found
ProbedFile == Unwrap(probe).file

\* the longest run of lines at the start of the file that all start with
\* "ACTIVE_AIRPORT:"
LeadingRun(file) ==
  LET n == CHOOSE n \in 0..Len(file) :
             /\ \A k \in 1..n : file[k].kind = "ACTIVE_AIRPORT"
             /\ n = Len(file) \/ file[n + 1].kind # "ACTIVE_AIRPORT"
  IN SubSeq(file, 1, n)

\* the ACTIVE_RUNWAY records of the probed airport
NewRecords == runway_lines(<<ProbedAirport>>)

\* C28 as stated: the rewritten file is the maximal leading run of
\* ACTIVE_AIRPORT lines of the existing file followed by the newly generated
\* ACTIVE_RUNWAY records, and nothing else.
C28_LeadingRunThenRecords ==
  ProbeOp = "write_runway_file" =>
    ProbeOut = LeadingRun(ProbedFile) \o NewRecords

\* C28 amended: the rewritten file is the maximal leading run of
\* ACTIVE_AIRPORT lines of the existing file followed by the newly generated
\* ACTIVE_RUNWAY records; when that run is empty the file starts with one
\* empty line instead.  No line after the run is carried over.
C28_LeadingRunOrEmptyLineThenRecords ==
  ProbeOp = "write_runway_file" =>
    /\ ProbeOut = (IF LeadingRun(ProbedFile) = <<>> THEN <<EmptyLine>>
                   ELSE LeadingRun(ProbedFile)) \o NewRecords
    /\ WrittenRunwayLines = NewRecords
    /\ \A k \in DOMAIN ProbeOut :
         ProbeOut[k].kind = "ACTIVE_AIRPORT" =>
           k <= Len(LeadingRun(ProbedFile)) /\ ProbeOut[k] = ProbedFile[k]

\* a file with an ACTIVE_AIRPORT line after an ACTIVE_RUNWAY line: only the
\* first line is kept, the old record is gone and new records follow
C28_Witness ==
  /\ ProbeOp = "write_runway_file"
  /\ Len(ProbedFile) = 3
  /\ ProbedFile[2].kind = "ACTIVE_RUNWAY"
  /\ ProbedFile[3].kind = "ACTIVE_AIRPORT"
  /\ Len(ProbeOut) = 3
  /\ ProbeOut[1] = ProbedFile[1]
  /\ ProbedFile[2] \notin {ProbeOut[k] : k \in DOMAIN ProbeOut}
  /\ ProbeOut[2].kind = "ACTIVE_RUNWAY"

\* the entry {NN: Both} of the configured default of an airport
ConfiguredEntry(icao) ==
  << <<Format02(Unwrap(ConfigDefault(config, icao))), "Both">> >>

\* the result of the ENGM policy for the airport the call started from
EngmPolicyResult(airport) ==
  set_runway_for_engm(airport, config, ClockRead).value

\* apply_default_runways leaves every entry that airport i holds as it is
EntriesKept(i) ==
  /\ \A source \in DOMAIN airports[i].runways_in_use :
       /\ source \in DOMAIN airports'[i].runways_in_use
       /\ airports'[i].runways_in_use[source]
            = airports[i].runways_in_use[source]
  /\ DOMAIN airports'[i].runways_in_use
       \subseteq DOMAIN airports[i].runways_in_use \cup {"Default"}

\* ENGM holds the result of its policy under Default after the step
EngmDefaultKept(i) ==
  (/\ airports[i].icao = "ENGM"
   /\ EngmPolicyResult(SelectInput[i])[1] = "Default")
    => /\ airports'[i].runways_in_use["Default"]
            = EngmPolicyResult(SelectInput[i])[2]
       /\ IsSome(ConfigDefault(config, "ENGM")) =>
            airports'[i].runways_in_use["Default"] # ConfiguredEntry("ENGM")

\* C29: a step of apply_default_runways changes no entry that an airport
\* already holds, under Default, Atis or Metar, and adds at most a Default
\* entry; ENGM, whose policy result was recorded under Default because the
\* wind did not decide, still holds that result under Default afterwards and
\* not the configured {NN: Both}.
C29_DefaultsNeverReplaceEntries ==
  [][(InSelect /\ ApplyDefaultRunways) =>
       \A i \in DOMAIN airports : EntriesKept(i) /\ EngmDefaultKept(i)]_vars

\* after select_runway_in_use ENGM holds the two runways of its policy under
\* Default although a default is configured for it, and ENHV next to it took
\* the configured default beside its Metar entry
C29_Witness ==
  /\ InSelect
  /\ pc = "selected"
  /\ \E i, j \in DOMAIN airports :
       /\ airports[i].icao = "ENGM"
       /\ IsSome(ConfigDefault(config, "ENGM"))
       /\ DOMAIN airports[i].runways_in_use = {"Default"}
       /\ Len(airports[i].runways_in_use["Default"]) = 2
       /\ airports[i].runways_in_use["Default"]
            = EngmPolicyResult(SelectInput[i])[2]
       /\ airports[j].icao = "ENHV"
       /\ DOMAIN airports[j].runways_in_use = {"Atis", "Metar", "Default"}
       /\ airports[j].runways_in_use["Default"] = ConfiguredEntry("ENHV")

\* ------------------------------------------------------------------------
\* read_atis_and_apply_runways on its own: the bulletins of the feed in every
\* order
\* ------------------------------------------------------------------------
MaxBulletins == 3

AtisInit ==
  /\ pc = "metars"
  /\ config = [ignore_airports |-> {}, default_runways |-> <<>>]
  /\ airports \in {[i \in DOMAIN sct |-> NewAirport(sct[i])] :
                     sct \in {<<"ENGM", "ENZV", "ENHV">>, <<"ENHV", "ENGM">>}}
  /\ now = None
  /\ fatal = None
  /\ rwy_file = <<>>
  /\ report = <<>>
  /\ merged = {}
  /\ feed = None
  /\ probe \in {Some([op |-> "read_atis_and_apply_runways",
                      atis_entries |-> atis_entries]) :
                  atis_entries \in SeqsUpTo(AtisSamples, MaxBulletins)}

ReadAtisFeed ==
  /\ pc = "metars"
  /\ IsSome(probe)
  /\ ReadAtisEntries(Unwrap(probe).atis_entries)
  /\ pc' = "atis"
  /\ UNCHANGED <<config, now, fatal, rwy_file, report, probe, feed>>

AtisNext == ReadAtisFeed

AtisSpec == AtisInit /\ [][AtisNext]_vars

\* the bulletins of the probed call have been applied
AtisRead ==
  /\ IsSome(probe)
  /\ Unwrap(probe).op = "read_atis_and_apply_runways"
  /\ pc = "atis"

Bulletins == Unwrap(probe).atis_entries

\* a usage map as the set of its <<runway, usage>> entries
EntriesOf(map) == {map[k] : k \in DOMAIN map}

\* the Atis map of an airport, empty when the airport has none
AtisEntriesOf(airport) ==
  IF "Atis" \in DOMAIN airport.runways_in_use
  THEN EntriesOf(airport.runways_in_use["Atis"]) ELSE {}

\* the <<runway, usage>> pairs the bulletins of an airport report
Reported(icao) ==
  UNION {EntriesOf(Unwrap(Bulletins[b].text_atis)) :
           b \in {b \in DOMAIN Bulletins :
                    /\ Bulletins[b].icao = icao
                    /\ IsSome(Bulletins[b].text_atis)}}

\* the merge of a set of usages
MergeOf(usages) ==
  IF "Both" \in usages \/ {"Arriving", "Departing"} \subseteq usages
  THEN "Both"
  ELSE CHOOSE usage \in usages : TRUE

\* C30: after read_atis_and_apply_runways the Atis map of an airport holds,
\* for each runway its bulletins report, the merge of all usages reported for
\* that runway, and nothing else; applying the same bulletins in any other
\* order gives a map with the same entries.
C30_AtisMapIndependentOfBulletinOrder ==
  AtisRead =>
    \A i \in DOMAIN airports :
      /\ AtisEntriesOf(airports[i])
           = {<<e[1], MergeOf({f[2] : f \in {f \in Reported(airports[i].icao) :
                                               f[1] = e[1]}})>> :
                e \in Reported(airports[i].icao)}
      /\ \A order \in Orders(DOMAIN Bulletins) :
           AtisEntriesOf(
             apply_atis_entries(NewAirport(airports[i].icao),
                                [k \in DOMAIN order |-> Bulletins[order[k]]]))
             = AtisEntriesOf(airports[i])

\* a departure bulletin and an arrival bulletin of ENGM, the arrival bulletin
\* last: runway 01R is in use for both
C30_Witness ==
  /\ AtisRead
  /\ Len(Bulletins) = 2
  /\ Bulletins[1]
       = Atis("ENGM", Some(<< <<Id3("0", "1", "L"), "Departing">>,
                              <<Id3("0", "1", "R"), "Departing">> >>))
  /\ Bulletins[2] = Atis("ENGM", Some(<< <<Id3("0", "1", "R"), "Arriving">> >>))
  /\ \E i \in DOMAIN airports :
       /\ airports[i].icao = "ENGM"
       /\ AtisEntriesOf(airports[i])
            = {<<Id3("0", "1", "L"), "Departing">>,
               <<Id3("0", "1", "R"), "Both">>}

====
